---- MODULE Spec2Model ----
(***************************************************************************)
(* Model of sp_ask_school_data_crunching: the day-by-day fetch loops       *)
(* (fetch_chats.get_chats_between_dates, ChatTrendAnalysis._fetch_data,    *)
(* DateRangeTrendAnalysis._fetch_data) and the trend computations built on *)
(* the fetched table (ChatTrendAnalysis.analyze_trends,                    *)
(* DateRangeTrendAnalysis.analyze_trends / _process_monthly_stats).        *)
(*                                                                         *)
(* One run of the model is one invocation of one entry point (prog).       *)
(* Dates are [y, m, d] records on the Gregorian calendar; a timestamp adds *)
(* tod, the time of day (0 is midnight, which is what pd.to_datetime of a  *)
(* YYYY-MM-DD string gives; 1 is any later time of that day).  Floats are  *)
(* exact rationals [k, n, d] or NaN.  Records always carry an id, a queue  *)
(* and a started timestamp; duration and wait may be Null.                 *)
(***************************************************************************)
EXTENDS Integers, Sequences, FiniteSets, TLC

VARIABLES
    prog,          \* the entry point this run executes
    pc,            \* position inside it
    period,        \* which of the two fetch loops is running
    current_date,  \* loop variable of the running fetch loop
    end_dt,        \* its upper limit
    all_chats,     \* the accumulated record list
    calls,         \* the calls of list_day by the loops that try each day once:
                   \* [day, raised, chats], in call order
    retries,       \* ChatTrendAnalysis: consecutive raising calls on current_date
    win,           \* DateRangeTrendAnalysis: current_start/current_end/prev_start/prev_end
    df,            \* the record table built by _fetch_data
    trends,        \* the value returned by analyze_trends
    school_name,   \* SchoolChatAnalytics: the school_name argument;
                   \* EnhancedChatAnalytics: the school_queue argument
    result,        \* what the entry point returned or raised to its caller
    report,        \* generate_report: the sorted structures the report is built from
    other,         \* a second invocation running at the same time:
                   \* ServiceAnalytics.__init__ with its own locals
    gen_report,    \* analyze_school: the generate_report argument
    tasks,         \* analyze_school: the analysis tasks started so far:
                   \* [name, called, raised], in order
    chord,         \* generate_chord_diagram: its locals after the loop, what
                   \* it returned and whether it wrote its file
    analyses       \* the analyze_trends calls on the analyzer: how many are
                   \* still to come (left) and, for each call that returned,
                   \* its bucket maps and its result (seen), in call order

vars == <<prog, pc, period, current_date, end_dt, all_chats, calls,
          retries, win, df, trends, school_name, result, report, other,
          gen_report, tasks, chord, analyses>>

\* None / NaN in a duration or wait cell (real values are >= 0)
Null == -1

------------------------------------------------------------------------------
(* Bounds of the model *)

\* most records one entry point accumulates
MaxRecs == 5

\* most records of one day in the years the year-over-year analysis reads
MaxPerDay == 2

\* most consecutive raising calls of list_day on one day
MaxRetries == 1

------------------------------------------------------------------------------
(* Calendar: datetime / pd.Timestamp arithmetic *)

IsLeap(y) == (y % 4 = 0 /\ y % 100 # 0) \/ y % 400 = 0

DaysInMonth(y, m) ==
    IF m = 2 THEN (IF IsLeap(y) THEN 29 ELSE 28)
    ELSE IF m \in {4, 6, 9, 11} THEN 30 ELSE 31

Date(y, m, d) == [y |-> y, m |-> m, d |-> d]

\* current_date + timedelta(days=1)
AddDay(dt) ==
    IF dt.d < DaysInMonth(dt.y, dt.m) THEN Date(dt.y, dt.m, dt.d + 1)
    ELSE IF dt.m < 12 THEN Date(dt.y, dt.m + 1, 1)
    ELSE Date(dt.y + 1, 1, 1)

\* a <= b on dates
DateLE(a, b) ==
    \/ a.y < b.y
    \/ a.y = b.y /\ a.m < b.m
    \/ a.y = b.y /\ a.m = b.m /\ a.d <= b.d

Min(a, b) == IF a <= b THEN a ELSE b

\* ts - pd.DateOffset(years=1): same month, day clipped to the month's length
MinusOneYear(dt) == Date(dt.y - 1, dt.m, Min(dt.d, DaysInMonth(dt.y - 1, dt.m)))

\* pd.to_datetime("YYYY-MM-DD"): midnight of that day
Midnight(dt) == [y |-> dt.y, m |-> dt.m, d |-> dt.d, tod |-> 0]

DayOf(ts) == Date(ts.y, ts.m, ts.d)

\* pandas' missing timestamp
NaT == [y |-> 0, m |-> 0, d |-> 0, tod |-> 0]

\* a <= b on timestamps; any comparison with NaT is False
TsLE(a, b) ==
    /\ a # NaT /\ b # NaT
    /\ \/ DayOf(a) # DayOf(b) /\ DateLE(DayOf(a), DayOf(b))
       \/ DayOf(a) = DayOf(b) /\ a.tod <= b.tod

------------------------------------------------------------------------------
(* Floats as exact rationals, with NaN *)

RECURSIVE Gcd(_, _)
Gcd(a, b) == IF b = 0 THEN a ELSE Gcd(b, a % b)

Abs(x) == IF x < 0 THEN -x ELSE x

NaN == [k |-> "nan", n |-> 0, d |-> 1]

\* n / d with d # 0, in lowest terms with a positive denominator
Rat(n, d) ==
    LET g == Gcd(Abs(n), Abs(d))
        s == IF d < 0 THEN -1 ELSE 1
    IN  [k |-> "num", n |-> s * (n \div g), d |-> s * (d \div g)]

Int2F(i) == Rat(i, 1)

IsNaN(x) == x.k = "nan"

IsZero(x) == x.k = "num" /\ x.n = 0

PosInf == [k |-> "inf", n |-> 1, d |-> 1]
NegInf == [k |-> "inf", n |-> -1, d |-> 1]

\* ((cur - ref) / ref) * 100 on numpy floats: a NaN operand gives NaN, a zero
\* ref gives an infinity (NaN for 0 / 0)
PctChange(cur, ref) ==
    IF IsNaN(cur) \/ IsNaN(ref) THEN NaN
    ELSE IF IsZero(ref)
         THEN (IF cur.n = 0 THEN NaN ELSE IF cur.n > 0 THEN PosInf ELSE NegInf)
    ELSE Rat((cur.n * ref.d - ref.n * cur.d) * 100 * ref.d, cur.d * ref.d * ref.n)

\* a + b on floats that are numbers
RatAdd(a, b) == Rat(a.n * b.d + b.n * a.d, a.d * b.d)

RECURSIVE SumSeq(_)
SumSeq(s) == IF s = <<>> THEN 0 ELSE Head(s) + SumSeq(Tail(s))

\* SelectSeq with a two-argument test is written per use; this keeps the non-null values
NonNull(s) == SelectSeq(s, LAMBDA v : v # Null)

\* Mean with a null value counted as zero
MeanNullAsZero(s) ==
    IF s = <<>> THEN NaN
    ELSE Rat(SumSeq([i \in 1..Len(s) |-> IF s[i] = Null THEN 0 ELSE s[i]]), Len(s))

\* Series.mean(): the mean of the non-null values, NaN when there is none
Mean(s) ==
    LET v == NonNull(s)
    IN  IF v = <<>> THEN NaN ELSE Rat(SumSeq(v), Len(v))

------------------------------------------------------------------------------
(* The external collaborators: the institution directory and the upstream  *)
(* chat service                                                            *)

\* sp_ask_school_dict: the directory, in its own order
SchoolDict ==
    << [short_name |-> "A", queues |-> {"qa"}],
       [short_name |-> "B", queues |-> {"qb"}],
       [short_name |-> "E", queues |-> {}] >>

\* no operator in a record: None
NoOperator == ""

\* a duration that is not a number (a string such as "n/a"): the mean of a
\* group that holds it raises TypeError
NotNumber == -2

\* what a record of the upstream service can look like, apart from its day
Shapes ==
    << [queue |-> "qa", tod |-> 1, answered |-> TRUE,  duration |-> 300,  wait |-> 40, operator |-> "op_a"],
       [queue |-> "qa", tod |-> 0, answered |-> TRUE,  duration |-> 270,  wait |-> 60, operator |-> "op"],
       [queue |-> "qa", tod |-> 0, answered |-> FALSE, duration |-> Null, wait |-> Null, operator |-> NoOperator],
       [queue |-> "qa", tod |-> 0, answered |-> TRUE,  duration |-> 0,    wait |-> 0, operator |-> "#7"],
       [queue |-> "qb", tod |-> 0, answered |-> TRUE,  duration |-> 300,  wait |-> 40, operator |-> "op_a"],
       [queue |-> "qx", tod |-> 0, answered |-> TRUE,  duration |-> 300,  wait |-> 40, operator |-> "op_a"],
       [queue |-> "qa", tod |-> 0, answered |-> TRUE,  duration |-> 300,  wait |-> 40, operator |-> "op_zz"],
       [queue |-> "qa", tod |-> 0, answered |-> TRUE,  duration |-> NotNumber, wait |-> 40, operator |-> "op_a"] >>

\* the shapes whose started field is None
UntimedShapes == {7}

\* the shapes a day can hold several records of, and the shapes that can
\* share a day with another shape
BurstShapes == {1, 2}
MixShapes == {1, 2, 3, 4}

\* the shapes found on the days the year-over-year analysis reads
YearShapes == {2, 5}

\* the days on which the upstream service holds chats or may fail; on every
\* other day list_day returns the empty list
RichDays == {Date(2023, 1, 31), Date(2023, 2, 1), Date(2024, 1, 31), Date(2024, 2, 1)}
YearDays == {Date(2021, 11, 30), Date(2021, 12, 1), Date(2022, 11, 30), Date(2022, 12, 1)}

\* the shapes of the days above
RichShapes == 1..7

\* the days with chats of a window of a year and a day, and their shapes
LongDays == {Date(2018, 6, 30), Date(2019, 6, 30), Date(2020, 6, 30)}
LongShapes == {2, 5, 8}

\* the days with chats of a window of eleven months that begins and ends in
\* June, and their shapes
JuneDays == {Date(2015, 6, 30), Date(2016, 6, 1), Date(2016, 6, 30), Date(2017, 6, 1)}
JuneShapes == {2, 5}

\* a day without chats on which the upstream service may fail
FlakyDays == {Date(2021, 1, 2)}

\* None in a timestamp field of a raw record
NoTime == <<>>

\* the raw record number i of day dt with shape number k; an abandoned chat
\* has no accepted time, an untimed one no started time
RawChat(dt, i, k) ==
    [id       |-> <<dt.y, dt.m, dt.d, i>>,
     queue    |-> Shapes[k].queue,
     started  |-> IF k \in UntimedShapes THEN NoTime
                  ELSE <<dt.y, dt.m, dt.d, Shapes[k].tod>>,
     accepted |-> IF Shapes[k].answered THEN <<dt.y, dt.m, dt.d, Shapes[k].tod>> ELSE NoTime,
     duration |-> Shapes[k].duration,
     wait     |-> Shapes[k].wait,
     operator |-> Shapes[k].operator]

\* the lists list_day(dt) can return: empty, one record, n records of one
\* shape, or two records of different shapes
DayLists(dt) ==
    LET ks == IF dt \in RichDays THEN RichShapes
              ELSE IF dt \in YearDays THEN YearShapes
              ELSE IF dt \in LongDays THEN LongShapes
              ELSE IF dt \in JuneDays THEN JuneShapes ELSE {}
        top == IF dt \in RichDays THEN MaxRecs ELSE MaxPerDay
        bs  == IF dt \in RichDays THEN BurstShapes
               ELSE IF dt \in LongDays \cup JuneDays THEN {2} ELSE ks
        mix == IF dt \in LongDays \cup JuneDays THEN ks ELSE ks \cap MixShapes
    IN  {<<>>}
        \cup {<<RawChat(dt, 1, k)>> : k \in ks}
        \cup {[i \in 1..n |-> RawChat(dt, i, k)] : n \in 2..top, k \in bs}
        \cup {<<RawChat(dt, 1, p[1]), RawChat(dt, 2, p[2])>> :
                  p \in {q \in mix \X mix : q[1] < q[2]}}

\* client.chats().list_day(y, m, d): a list of the day's records, or an exception
ListDay(dt) ==
    {[raised |-> FALSE, chats |-> l] : l \in DayLists(dt)}
    \cup (IF dt \in RichDays \cup YearDays \cup FlakyDays \cup LongDays \cup JuneDays
          THEN {[raised |-> TRUE, chats |-> <<>>]} ELSE {})

------------------------------------------------------------------------------
(* Entry points and their arguments *)

Windows ==
    { [start |-> Date(2024, 1, 31), end |-> Date(2024, 1, 31)],
      [start |-> Date(2024, 1, 31), end |-> Date(2024, 2, 1)],
      [start |-> Date(2024, 2, 29), end |-> Date(2024, 2, 29)] }

YearPairs == { [base_year |-> 2021, comparison_year |-> 2022] }

NoDate == Date(0, 0, 0)
NoWin  == [current_start |-> NoDate, current_end |-> NoDate,
           prev_start |-> NoDate, prev_end |-> NoDate,
           base_year |-> 0, comparison_year |-> 0]

\* nothing returned or raised yet
NoResult == [kind |-> "unset", exc |-> "", message |-> "", value |-> <<>>]

NoReport == [sorted_schools |-> <<>>, chart_data |-> <<>>, rows |-> <<>>]

\* no second invocation
NoOther == [pc |-> "none", start_dt |-> NoDate, current_date |-> NoDate, end_dt |-> NoDate,
            all_chats |-> <<>>, calls |-> <<>>, df |-> <<>>, total_chats |-> Null]

\* generate_chord_diagram has not run
NoChord ==
    [ran |-> FALSE, flow_data |-> <<>>, skipped_chats |-> 0,
     error_details |-> [no_operator |-> 0, unknown_operator_school |-> 0,
                        unknown_queue_school |-> 0, other_errors |-> 0],
     returned |-> [kind |-> "unset", value |-> <<>>], file |-> FALSE]

\* an entry point has analyze_trends called once on the analyzer it builds
OneCall == [left |-> 1, seen |-> <<>>]

\* a caller that builds the analyzer itself and calls analyze_trends twice
TwoCalls == [left |-> 2, seen |-> <<>>]

Idle ==
    /\ all_chats = <<>> /\ calls = <<>> /\ retries = 0
    /\ df = <<>> /\ trends = <<>>
    /\ result = NoResult /\ report = NoReport
    /\ tasks = <<>> /\ chord = NoChord
    /\ analyses = OneCall

\* get_chats_between_dates(start_date, end_date) up to the loop
InitGetChats ==
    \E w \in Windows :
        /\ prog = "get_chats" /\ pc = "loop" /\ period = "range"
        /\ current_date = w.start /\ end_dt = w.end
        /\ win = [NoWin EXCEPT !.current_start = w.start, !.current_end = w.end]
        /\ school_name = "" /\ gen_report = TRUE /\ other = NoOther
        /\ Idle

\* DateRangeTrendAnalysis.__init__ up to the first fetch_range call
InitDateRange ==
    \E w \in Windows :
        /\ prog = "date_range" /\ pc = "fetch" /\ period = "previous"
        /\ win = [NoWin EXCEPT !.current_start = w.start, !.current_end = w.end,
                               !.prev_start = MinusOneYear(w.start),
                               !.prev_end = MinusOneYear(w.end)]
        /\ current_date = win.prev_start /\ end_dt = win.prev_end
        /\ school_name = "" /\ gen_report = TRUE /\ other = NoOther
        /\ Idle

\* ChatTrendAnalysis.__init__ up to the first loop
InitChatTrend ==
    \E yp \in YearPairs :
        /\ prog = "chat_trend" /\ pc = "fetch" /\ period = "base"
        /\ win = [NoWin EXCEPT !.base_year = yp.base_year,
                               !.comparison_year = yp.comparison_year]
        /\ current_date = Date(yp.base_year, 1, 1)
        /\ end_dt = Date(yp.base_year, 12, 31)
        /\ school_name = "" /\ gen_report = TRUE /\ other = NoOther
        /\ Idle

------------------------------------------------------------------------------
(* The fetch loops *)

Call(dt, out) == [day |-> dt, raised |-> out.raised, chats |-> out.chats]

\* FetchDay with the try block around the whole loop: a raising day ends the loop
FetchDayAbort ==
    \E out \in ListDay(current_date) :
        /\ calls' = Append(calls, Call(current_date, out))
        /\ IF out.raised
           THEN /\ all_chats' = all_chats
                /\ current_date' = AddDay(end_dt)
           ELSE /\ Len(all_chats) + Len(out.chats) <= MaxRecs
                /\ all_chats' = all_chats \o out.chats
                /\ current_date' = AddDay(current_date)

\* one iteration of a loop that moves to the next day whatever list_day did
FetchDay ==
    \E out \in ListDay(current_date) :
        /\ calls' = Append(calls, Call(current_date, out))
        /\ IF out.raised
           THEN all_chats' = all_chats
           ELSE /\ Len(all_chats) + Len(out.chats) <= MaxRecs
                /\ all_chats' = all_chats \o out.chats
        /\ current_date' = AddDay(current_date)

\* get_chats_between_dates: the body of `while current_date <= end_dt`
GetChatsStep ==
    /\ prog = "get_chats" /\ pc = "loop"
    /\ DateLE(current_date, end_dt)
    /\ FetchDay
    /\ UNCHANGED <<prog, pc, period, end_dt, retries, win, df, trends,
                   school_name, result, report, other,
                   gen_report, tasks, chord, analyses>>

\* get_chats_between_dates: the loop ends and all_chats is returned
GetChatsReturn ==
    /\ prog = "get_chats" /\ pc = "loop"
    /\ ~DateLE(current_date, end_dt)
    /\ pc' = "done"
    /\ UNCHANGED <<prog, period, current_date, end_dt, all_chats, calls,
                   retries, win, df, trends,
                   school_name, result, report, other,
                   gen_report, tasks, chord, analyses>>

\* fetch_range: the body of `while current_date <= end_date`
FetchRangeStep ==
    /\ prog = "date_range" /\ pc = "fetch"
    /\ DateLE(current_date, end_dt)
    /\ FetchDay
    /\ UNCHANGED <<prog, pc, period, end_dt, retries, win, df, trends,
                   school_name, result, report, other,
                   gen_report, tasks, chord, analyses>>

\* fetch_range("previous") returns and fetch_range("current") starts
FetchRangeNext ==
    /\ prog = "date_range" /\ pc = "fetch" /\ period = "previous"
    /\ ~DateLE(current_date, end_dt)
    /\ period' = "current"
    /\ current_date' = win.current_start
    /\ end_dt' = win.current_end
    /\ UNCHANGED <<prog, pc, all_chats, calls,
                   retries, win, df, trends,
                   school_name, result, report, other,
                   gen_report, tasks, chord, analyses>>

\* pd.to_datetime on one cell: None becomes NaT
ToDatetime(raw) ==
    IF raw = NoTime THEN NaT
    ELSE [y |-> raw[1], m |-> raw[2], d |-> raw[3], tod |-> raw[4]]

\* pd.DataFrame(all_chats) with the timestamp columns converted
MakeFrame(chats) ==
    [i \in 1..Len(chats) |->
        [chats[i] EXCEPT !.started = ToDatetime(chats[i].started),
                         !.accepted = ToDatetime(chats[i].accepted)]]

\* ChatTrendAnalysis._fetch_data: pd.DataFrame(all_chats) with only the
\* started column converted; accepted keeps the value the API returned
MakeStartedFrame(chats) ==
    [i \in 1..Len(chats) |->
        [chats[i] EXCEPT !.started = ToDatetime(chats[i].started)]]

\* DateRangeTrendAnalysis._fetch_data: both ranges are fetched, the table is built
FetchDataReturn ==
    /\ prog = "date_range" /\ pc = "fetch" /\ period = "current"
    /\ ~DateLE(current_date, end_dt)
    /\ df' = MakeFrame(all_chats)
    /\ pc' = "ready"
    /\ UNCHANGED <<prog, period, current_date, end_dt, all_chats, calls,
                   retries, win, trends,
                   school_name, result, report, other,
                   gen_report, tasks, chord, analyses>>

\* a current window of a year and a day
LongWindows == { [start |-> Date(2019, 6, 30), end |-> Date(2020, 6, 30)] }

\* the values current_date takes in `while current_date <= end_date` with
\* `current_date += timedelta(days=1)`, from a to b, a month at a time
RECURSIVE DaysFrom(_, _)
DaysFrom(a, b) ==
    IF ~DateLE(a, b) THEN <<>>
    ELSE IF a.y = b.y /\ a.m = b.m
         THEN [i \in 1..(b.d - a.d + 1) |-> Date(a.y, a.m, a.d + i - 1)]
         ELSE [i \in 1..(DaysInMonth(a.y, a.m) - a.d + 1) |-> Date(a.y, a.m, a.d + i - 1)]
              \o DaysFrom(AddDay(Date(a.y, a.m, DaysInMonth(a.y, a.m))), b)

\* all_chats after the calls lo..hi of cs: the lists returned, in call order
RECURSIVE Extended(_, _, _)
Extended(cs, lo, hi) ==
    IF lo > hi THEN <<>>
    ELSE IF lo = hi THEN (IF cs[lo].raised THEN <<>> ELSE cs[lo].chats)
    ELSE Extended(cs, lo, (lo + hi) \div 2) \o Extended(cs, (lo + hi) \div 2 + 1, hi)

\* a current window of eleven months: June 2016 and June 2017 lie in it, June
\* 2015 and June 2016 in its reference window
JuneWindows == { [start |-> Date(2016, 6, 30), end |-> Date(2017, 6, 1)] }

\* DateRangeTrendAnalysis(start_date, end_date) has been constructed on the
\* window w: fetch_range has called list_day for every day of the previous
\* period and then for every day of the current period, and the table is
\* built
DateRangeConstructed(w) ==
      \E pw \in {[NoWin EXCEPT !.current_start = w.start, !.current_end = w.end,
                               !.prev_start = MinusOneYear(w.start),
                               !.prev_end = MinusOneYear(w.end)]} :
      \E days \in {DaysFrom(pw.prev_start, pw.prev_end)
                    \o DaysFrom(pw.current_start, pw.current_end)} :
      \E busy \in {SelectSeq([i \in 1..Len(days) |-> i], LAMBDA i : days[i] \in LongDays \cup JuneDays)} :
      \E quiet \in {[i \in 1..Len(days) |->
                        IF days[i] \in LongDays \cup JuneDays
                        THEN [raised |-> FALSE, chats |-> <<>>]
                        ELSE CHOOSE o \in ListDay(days[i]) : TRUE]} :
      \E o1 \in ListDay(days[busy[1]]), o2 \in ListDay(days[busy[2]]),
         o3 \in ListDay(days[busy[3]]), o4 \in ListDay(days[busy[4]]) :
      \E outs \in {[quiet EXCEPT ![busy[1]] = o1, ![busy[2]] = o2,
                                  ![busy[3]] = o3, ![busy[4]] = o4]} :
      \E cs \in {[i \in 1..Len(days) |-> Call(days[i], outs[i])]} :
      \E got \in {Extended(cs, 1, Len(cs))} :
        /\ Len(busy) = 4
        /\ Len(got) <= MaxRecs
        /\ prog = "date_range" /\ pc = "ready" /\ period = "current"
        /\ win = pw
        /\ current_date = AddDay(w.end) /\ end_dt = w.end
        /\ calls = cs
        /\ all_chats = got
        /\ df = MakeFrame(got)
        /\ retries = 0 /\ trends = <<>>
        /\ result = NoResult /\ report = NoReport
        /\ school_name = "" /\ gen_report = TRUE /\ other = NoOther
        /\ tasks = <<>> /\ chord = NoChord

\* analyze_date_range_trends on a window of a year and a day, its analyzer
\* constructed
InitLong == \E w \in LongWindows : DateRangeConstructed(w) /\ analyses = OneCall

\* ChatTrendAnalysis._fetch_data: one iteration of either while loop; the day
\* advances inside the try block, after list_day has returned
ChatTrendStep ==
    /\ prog = "chat_trend" /\ pc = "fetch"
    /\ DateLE(current_date, end_dt)
    /\ \E out \in ListDay(current_date) :
        IF out.raised
        THEN /\ retries < MaxRetries
             /\ retries' = retries + 1
             /\ UNCHANGED <<all_chats, current_date, analyses>>
        ELSE /\ Len(all_chats) + Len(out.chats) <= MaxRecs
             /\ all_chats' = all_chats \o out.chats
             /\ current_date' = AddDay(current_date)
             /\ retries' = 0
    /\ UNCHANGED <<prog, pc, period, end_dt, calls, win, df, trends,
                   school_name, result, report, other,
                   gen_report, tasks, chord, analyses>>

\* ChatTrendAnalysis._fetch_data: the base-year loop ends, the comparison-year loop starts
ChatTrendNextYear ==
    /\ prog = "chat_trend" /\ pc = "fetch" /\ period = "base"
    /\ ~DateLE(current_date, end_dt)
    /\ period' = "comparison"
    /\ current_date' = Date(win.comparison_year, 1, 1)
    /\ end_dt' = Date(win.comparison_year, 12, 31)
    /\ UNCHANGED <<prog, pc, all_chats, calls,
                   retries, win, df, trends,
                   school_name, result, report, other,
                   gen_report, tasks, chord, analyses>>

\* ChatTrendAnalysis._fetch_data: the table is built; df['started'] of a table
\* without rows raises KeyError
ChatTrendFrame ==
    /\ prog = "chat_trend" /\ pc = "fetch" /\ period = "comparison"
    /\ ~DateLE(current_date, end_dt)
    /\ IF all_chats = <<>>
       THEN pc' = "error" /\ df' = df
       ELSE pc' = "ready" /\ df' = MakeStartedFrame(all_chats)
    /\ UNCHANGED <<prog, period, current_date, end_dt, all_chats, calls,
                   retries, win, trends,
                   school_name, result, report, other,
                   gen_report, tasks, chord, analyses>>

\* ChatTrendAnalysis(base_year, comparison_year) has been constructed: both
\* loops have run over their year, every day was tried until list_day
\* returned, the list was not empty and the table is built
ChatTrendConstructed(yp) ==
    \E l1 \in DayLists(Date(yp.base_year, 11, 30)),
       l2 \in DayLists(Date(yp.base_year, 12, 1)),
       l3 \in DayLists(Date(yp.comparison_year, 11, 30)),
       l4 \in DayLists(Date(yp.comparison_year, 12, 1)) :
    \E got \in {l1 \o l2 \o l3 \o l4} :
        /\ got # <<>>
        /\ Len(got) <= MaxRecs
        /\ prog = "chat_trend" /\ pc = "ready" /\ period = "comparison"
        /\ win = [NoWin EXCEPT !.base_year = yp.base_year,
                               !.comparison_year = yp.comparison_year]
        /\ current_date = Date(yp.comparison_year + 1, 1, 1)
        /\ end_dt = Date(yp.comparison_year, 12, 31)
        /\ calls = <<>>
        /\ all_chats = got
        /\ df = MakeStartedFrame(got)
        /\ retries = 0 /\ trends = <<>>
        /\ result = NoResult /\ report = NoReport
        /\ school_name = "" /\ gen_report = TRUE /\ other = NoOther
        /\ tasks = <<>> /\ chord = NoChord

\* a caller has constructed a DateRangeTrendAnalysis on a window of eleven
\* months, or a ChatTrendAnalysis, and calls analyze_trends twice on it
InitDirect ==
    /\ \/ \E w \in JuneWindows : DateRangeConstructed(w)
       \/ \E yp \in YearPairs : ChatTrendConstructed(yp)
    /\ analyses = TwoCalls

------------------------------------------------------------------------------
(* DateRangeTrendAnalysis: _process_monthly_stats and analyze_trends *)

\* SchoolChats without the queue filter
SchoolChatsAll(table, queues) == table

\* self.df[self.df['queue'].isin(school_queues)]
SchoolChats(table, queues) == SelectSeq(table, LAMBDA r : r.queue \in queues)

\* school_chats[(started >= lo) & (started <= hi)], lo and hi being the
\* midnight timestamps pd.to_datetime made of the date strings
InPeriod(chats, lo, hi) ==
    SelectSeq(chats, LAMBDA r : TsLE(Midnight(lo), r.started) /\ TsLE(r.started, Midnight(hi)))

Column(rows, name) == [i \in 1..Len(rows) |-> rows[i][name]]

KeyLE(a, b) == a[1] < b[1] \/ (a[1] = b[1] /\ a[2] <= b[2])

\* the group keys in the order groupby gives them: ascending (year, month)
RECURSIVE SortKeys(_)
SortKeys(S) ==
    IF S = {} THEN <<>>
    ELSE LET k == CHOOSE x \in S : \A z \in S : KeyLE(x, z)
         IN  <<k>> \o SortKeys(S \ {k})

GroupKeys(rows) == SortKeys({<<rows[i].started.y, rows[i].started.m>> : i \in 1..Len(rows)})

\* _process_monthly_stats: one row per (year, month) of started, with the
\* count of ids and the means of duration and wait
ProcessMonthlyStats(rows) ==
    IF Len(rows) = 0 THEN <<>>
    ELSE LET keys == GroupKeys(rows)
             grp(k) == SelectSeq(rows, LAMBDA r : r.started.y = k[1] /\ r.started.m = k[2])
         IN  [i \in 1..Len(keys) |->
                 [year         |-> keys[i][1],
                  month        |-> keys[i][2],
                  chats        |-> Len(grp(keys[i])),
                  avg_duration |-> Mean(Column(grp(keys[i]), "duration")),
                  avg_wait     |-> Mean(Column(grp(keys[i]), "wait"))]]

\* `pct if ref != 0 else 0`: NaN != 0 is true, so a NaN reference is divided by
GuardedPct(cur, ref) == IF ~IsZero(ref) THEN PctChange(cur, ref) ELSE Int2F(0)

\* ChangeRow with the wait change computed from the duration columns
ChangeRowWaitFromDuration(prev_row, current_row) ==
    [month                   |-> prev_row.month,
     prev_volume             |-> prev_row.chats,
     current_volume          |-> current_row.chats,
     percent_change_volume   |-> PctChange(Int2F(current_row.chats), Int2F(prev_row.chats)),
     percent_change_duration |-> GuardedPct(current_row.avg_duration, prev_row.avg_duration),
     percent_change_wait     |-> GuardedPct(current_row.avg_duration, prev_row.avg_duration)]

\* the dict appended to changes for prev_row and the first current row of the same month
ChangeRow(prev_row, current_row) ==
    [month                   |-> prev_row.month,
     prev_volume             |-> prev_row.chats,
     current_volume          |-> current_row.chats,
     percent_change_volume   |-> PctChange(Int2F(current_row.chats), Int2F(prev_row.chats)),
     percent_change_duration |-> GuardedPct(current_row.avg_duration, prev_row.avg_duration),
     percent_change_wait     |-> GuardedPct(current_row.avg_wait, prev_row.avg_wait)]

\* Changes aligning by position when the month has no current row
RECURSIVE ChangesByPosition(_, _)
ChangesByPosition(prev_monthly, current_monthly) ==
    IF prev_monthly = <<>> THEN <<>>
    ELSE LET prev_row == Head(prev_monthly)
             current_row == SelectSeq(current_monthly, LAMBDA c : c.month = prev_row.month)
         IN  <<ChangeRow(prev_row, IF current_row # <<>> THEN current_row[1]
                                   ELSE current_monthly[1])>>
             \o ChangesByPosition(Tail(prev_monthly), current_monthly)

\* Changes comparing with the last current row of the month
RECURSIVE ChangesLatest(_, _)
ChangesLatest(prev_monthly, current_monthly) ==
    IF prev_monthly = <<>> THEN <<>>
    ELSE LET prev_row == Head(prev_monthly)
             current_row == SelectSeq(current_monthly, LAMBDA c : c.month = prev_row.month)
         IN  (IF current_row # <<>>
              THEN <<ChangeRow(prev_row, current_row[Len(current_row)])>> ELSE <<>>)
             \o ChangesLatest(Tail(prev_monthly), current_monthly)

\* the loop over prev_monthly.iterrows()
RECURSIVE Changes(_, _)
Changes(prev_monthly, current_monthly) ==
    IF prev_monthly = <<>> THEN <<>>
    ELSE LET prev_row == Head(prev_monthly)
             current_row == SelectSeq(current_monthly, LAMBDA c : c.month = prev_row.month)
         IN  (IF current_row # <<>> THEN <<ChangeRow(prev_row, current_row[1])>> ELSE <<>>)
             \o Changes(Tail(prev_monthly), current_monthly)

\* the total_stats of one period: len() and the two means
PeriodStats(rows) ==
    [total_chats  |-> Len(rows),
     avg_duration |-> IF Len(rows) > 0 THEN Mean(Column(rows, "duration")) ELSE Int2F(0),
     avg_wait     |-> IF Len(rows) > 0 THEN Mean(Column(rows, "wait")) ELSE Int2F(0)]

\* the row percent changes of volume, summed
RECURSIVE SumVolumePct(_)
SumVolumePct(changes) ==
    IF changes = <<>> THEN Int2F(0)
    ELSE RatAdd(Head(changes).percent_change_volume, SumVolumePct(Tail(changes)))

MeanVolumePct(changes) ==
    LET t == SumVolumePct(changes) IN Rat(t.n, t.d * Len(changes))

\* OverallChanges with the volume change taken as the mean of the monthly changes
OverallChangesMean(prev_period, current_period) ==
    [volume_change   |-> MeanVolumePct(Changes(ProcessMonthlyStats(prev_period),
                                               ProcessMonthlyStats(current_period))),
     duration_change |-> GuardedPct(Mean(Column(current_period, "duration")),
                                    Mean(Column(prev_period, "duration"))),
     wait_change     |-> GuardedPct(Mean(Column(current_period, "wait")),
                                    Mean(Column(prev_period, "wait")))]

\* OverallChanges taking the branch for a reference total of zero
OverallChangesFallback(prev_period, current_period) ==
    [volume_change   |-> IF Len(current_period) > 0 THEN Int2F(100) ELSE Int2F(0),
     duration_change |-> Int2F(0),
     wait_change     |-> Int2F(0)]

\* overall_changes: from the period totals when prev_total > 0, else fixed values
OverallChanges(prev_period, current_period) ==
    LET prev_total == Len(prev_period)
    IN  IF prev_total > 0
        THEN [volume_change   |-> PctChange(Int2F(Len(current_period)), Int2F(prev_total)),
              duration_change |-> GuardedPct(Mean(Column(current_period, "duration")),
                                             Mean(Column(prev_period, "duration"))),
              wait_change     |-> GuardedPct(Mean(Column(current_period, "wait")),
                                             Mean(Column(prev_period, "wait")))]
        ELSE [volume_change   |-> IF Len(current_period) > 0 THEN Int2F(100) ELSE Int2F(0),
              duration_change |-> Int2F(0),
              wait_change     |-> Int2F(0)]

\* SchoolTrend without the checks for an empty aggregation and for empty changes
SchoolTrendAlways(table, w, school) ==
    LET school_chats   == SchoolChats(table, school.queues)
        prev_period    == InPeriod(school_chats, w.prev_start, w.prev_end)
        current_period == InPeriod(school_chats, w.current_start, w.current_end)
    IN  IF school.queues = {} THEN <<>>
        ELSE IF Len(school_chats) = 0 THEN <<>>
        ELSE << [school          |-> school.short_name,
                 changes         |-> Changes(ProcessMonthlyStats(prev_period),
                                             ProcessMonthlyStats(current_period)),
                 total_stats     |-> [prev_period    |-> PeriodStats(prev_period),
                                      current_period |-> PeriodStats(current_period)],
                 overall_changes |-> OverallChanges(prev_period, current_period)] >>

\* the groupby aggregation of a non-empty period raises when a duration or a
\* wait of the period is not a number
MeanRaises(rows) ==
    \E i \in 1..Len(rows) : rows[i].duration = NotNumber \/ rows[i].wait = NotNumber

\* the body of the loop over sp_ask_school_dict for one school: the entries
\* it adds to trends (none or one); an exception ends the body in the
\* except branch before trends[school_name] is assigned
SchoolTrend(table, w, school) ==
    LET school_chats   == SchoolChats(table, school.queues)
        prev_period    == InPeriod(school_chats, w.prev_start, w.prev_end)
        current_period == InPeriod(school_chats, w.current_start, w.current_end)
        prev_monthly    == ProcessMonthlyStats(prev_period)
        current_monthly == ProcessMonthlyStats(current_period)
        changes == Changes(prev_monthly, current_monthly)
    IN  IF school.queues = {} THEN <<>>
        ELSE IF Len(school_chats) = 0 THEN <<>>
        ELSE IF MeanRaises(prev_period) \/ MeanRaises(current_period) THEN <<>>
        ELSE IF Len(prev_monthly) = 0 \/ Len(current_monthly) = 0 THEN <<>>
        ELSE IF changes = <<>> THEN <<>>
        ELSE << [school          |-> school.short_name,
                 changes         |-> changes,
                 total_stats     |-> [prev_period    |-> PeriodStats(prev_period),
                                      current_period |-> PeriodStats(current_period)],
                 overall_changes |-> OverallChanges(prev_period, current_period)] >>

\* TrendsFrom with the exception of a school ending the loop
RECURSIVE TrendsFromAbort(_, _, _)
TrendsFromAbort(table, w, schools) ==
    IF schools = <<>> THEN <<>>
    ELSE LET school_chats == SchoolChats(table, Head(schools).queues)
         IN  IF \/ MeanRaises(InPeriod(school_chats, w.prev_start, w.prev_end))
                \/ MeanRaises(InPeriod(school_chats, w.current_start, w.current_end))
             THEN <<>>
             ELSE SchoolTrend(table, w, Head(schools))
                  \o TrendsFromAbort(table, w, Tail(schools))

\* the loop over sp_ask_school_dict, each school in its own try block
RECURSIVE TrendsFrom(_, _, _)
TrendsFrom(table, w, schools) ==
    IF schools = <<>> THEN <<>>
    ELSE SchoolTrend(table, w, Head(schools)) \o TrendsFrom(table, w, Tail(schools))

\* DateRangeTrendAnalysis.analyze_trends: the entries of the returned dict,
\* in insertion order
DateRangeTrends(table, w) ==
    IF Len(table) = 0 THEN <<>> ELSE TrendsFrom(table, w, SchoolDict)

\* the bucket maps one analyze_trends call gets from _process_monthly_stats:
\* the two maps of every school whose body reaches both calls
RECURSIVE MonthlyFrom(_, _, _)
MonthlyFrom(table, w, schools) ==
    IF schools = <<>> THEN <<>>
    ELSE LET school         == Head(schools)
             school_chats   == SchoolChats(table, school.queues)
             prev_period    == InPeriod(school_chats, w.prev_start, w.prev_end)
             current_period == InPeriod(school_chats, w.current_start, w.current_end)
         IN  (IF school.queues = {} \/ Len(school_chats) = 0 THEN <<>>
              ELSE IF MeanRaises(prev_period) \/ MeanRaises(current_period) THEN <<>>
              ELSE << [school          |-> school.short_name,
                       prev_monthly    |-> ProcessMonthlyStats(prev_period),
                       current_monthly |-> ProcessMonthlyStats(current_period)] >>)
             \o MonthlyFrom(table, w, Tail(schools))

\* the bucket maps of one analyze_trends call on the table
MonthlyStats(table, w) ==
    IF Len(table) = 0 THEN <<>> ELSE MonthlyFrom(table, w, SchoolDict)

\* AnalyzeTrends with the selection of the first school assigned to self.df
\* in place of a copy
AnalyzeTrendsInPlace ==
    /\ prog = "date_range" /\ pc \in {"ready", "analyzed"}
    /\ analyses.left > 0
    /\ trends' = DateRangeTrends(df, win)
    /\ analyses' = [left |-> analyses.left - 1,
                    seen |-> Append(analyses.seen,
                                    [monthly |-> MonthlyStats(df, win),
                                     trends  |-> DateRangeTrends(df, win)])]
    /\ df' = SchoolChats(df, SchoolDict[1].queues)
    /\ pc' = "analyzed"
    /\ UNCHANGED <<prog, period, current_date, end_dt, all_chats, calls,
                   retries, win, school_name, result, report, other,
                   gen_report, tasks, chord>>

\* analyze_trends is called, by generate_report or by the caller itself, on
\* the table as it is at the call; self.df is only read, the selections are
\* copies and assign() and groupby() return new tables
AnalyzeTrends ==
    /\ prog = "date_range" /\ pc \in {"ready", "analyzed"}
    /\ analyses.left > 0
    /\ trends' = DateRangeTrends(df, win)
    /\ analyses' = [left |-> analyses.left - 1,
                    seen |-> Append(analyses.seen,
                                    [monthly |-> MonthlyStats(df, win),
                                     trends  |-> DateRangeTrends(df, win)])]
    /\ pc' = "analyzed"
    /\ UNCHANGED <<prog, period, current_date, end_dt, all_chats, calls,
                   retries, win, df,
                   school_name, result, report, other,
                   gen_report, tasks, chord>>

------------------------------------------------------------------------------
(* DateRangeTrendAnalysis.generate_report *)

\* a < b on floats: every comparison with NaN is false
FloatLT(a, b) ==
    IF IsNaN(a) \/ IsNaN(b) THEN FALSE
    ELSE IF a.k = "inf" THEN a.n < 0 /\ ~(b.k = "inf" /\ b.n < 0)
    ELSE IF b.k = "inf" THEN b.n > 0
    ELSE a.n * b.d < b.n * a.d

\* the key of sorted(): x[1]['overall_changes']['volume_change']
SortKey(e) == e.overall_changes.volume_change

\* e put into a sorted list behind every entry that is not greater than it
RECURSIVE InsertByChange(_, _)
InsertByChange(e, sorted) ==
    IF sorted = <<>> THEN <<e>>
    ELSE IF FloatLT(SortKey(e), SortKey(Head(sorted))) THEN <<e>> \o sorted
    ELSE <<Head(sorted)>> \o InsertByChange(e, Tail(sorted))

\* SortByChange leaving the entries in the order of the dict
SortByChangeUnsorted(t) == t

\* sorted(trends.items(), key=volume_change): ascending and stable
RECURSIVE SortByChange(_)
SortByChange(t) ==
    IF t = <<>> THEN <<>>
    ELSE InsertByChange(t[Len(t)], SortByChange(SubSeq(t, 1, Len(t) - 1)))

\* 'increase' if x > 0 else 'decrease'
Direction(x) == IF FloatLT(Int2F(0), x) THEN "Increase" ELSE "Decrease"

\* chart_data: one row per school, in the sorted order
ChartData(sorted_schools) ==
    [i \in 1..Len(sorted_schools) |->
        [School    |-> sorted_schools[i].school,
         Change    |-> SortKey(sorted_schools[i]),
         Direction |-> Direction(SortKey(sorted_schools[i]))]]

\* _generate_table_rows: one table row per school, sorted again
GenerateTableRows(t) ==
    LET sorted == SortByChange(t)
    IN  [i \in 1..Len(sorted) |->
            [school         |-> sorted[i].school,
             prev_total     |-> sorted[i].total_stats.prev_period.total_chats,
             current_total  |-> sorted[i].total_stats.current_period.total_chats,
             volume_change  |-> sorted[i].overall_changes.volume_change,
             volume_class   |-> Direction(sorted[i].overall_changes.volume_change),
             duration_class |-> Direction(sorted[i].overall_changes.duration_change),
             wait_class     |-> Direction(sorted[i].overall_changes.wait_change)]]

\* `return None`
ReturnNone == [kind |-> "none", exc |-> "", message |-> "", value |-> <<>>]

\* ReturnTrends handing back the entries without their monthly rows
ReturnTrendsStripped(t) ==
    [kind |-> "dict", exc |-> "", message |-> "",
     value |-> [i \in 1..Len(t) |-> [t[i] EXCEPT !.changes = <<>>]]]

\* `return trends`
ReturnTrends(t) == [kind |-> "dict", exc |-> "", message |-> "", value |-> t]

\* generate_report after its analyze_trends call, the last call on the
\* analyzer, has returned: nothing to report, or the sorted structures are
\* built and the file is written (written = FALSE: a call of the try block
\* raised, here the write of the report file)
GenerateReport ==
    /\ prog = "date_range" /\ pc = "analyzed"
    /\ analyses.left = 0
    /\ pc' = "returned"
    /\ IF trends = <<>>
       THEN /\ result' = ReturnNone
            /\ report' = report
       ELSE \E written \in BOOLEAN :
            /\ report' = [sorted_schools |-> Column(SortByChange(trends), "school"),
                          chart_data     |-> ChartData(SortByChange(trends)),
                          rows           |-> GenerateTableRows(trends)]
            /\ result' = IF written THEN ReturnTrends(trends) ELSE ReturnNone
    /\ UNCHANGED <<prog, period, current_date, end_dt, all_chats, calls,
                   retries, win, df, trends, school_name, other,
                   gen_report, tasks, chord, analyses>>

------------------------------------------------------------------------------
(* ChatTrendAnalysis.analyze_trends *)

\* monthly_volumes restricted to one year: the (month, chats) rows of that year
YearVolumes(chats, year) ==
    LET ms == {chats[i].started.m : i \in {j \in 1..Len(chats) : chats[j].started.y = year}}
    IN  [m \in ms |-> Len(SelectSeq(chats, LAMBDA r : r.started.y = year /\ r.started.m = m))]

\* YearChanges with a row for every month of the base year, the comparison
\* volume taken from the base year where the comparison year has no bucket
RECURSIVE YearChangesBaseOnly(_, _, _)
YearChangesBaseOnly(base, comp, month) ==
    IF month > 12 THEN <<>>
    ELSE (IF month \in DOMAIN base
          THEN LET c == IF month \in DOMAIN comp THEN comp[month] ELSE base[month]
               IN  << [month             |-> month,
                       base_volume       |-> base[month],
                       comparison_volume |-> c,
                       percent_change    |-> PctChange(Int2F(c), Int2F(base[month]))] >>
          ELSE <<>>)
         \o YearChangesBaseOnly(base, comp, month + 1)

\* the loop `for month in range(1, 13)` from month on
RECURSIVE YearChanges(_, _, _)
YearChanges(base, comp, month) ==
    IF month > 12 THEN <<>>
    ELSE (IF month \in DOMAIN base /\ month \in DOMAIN comp
          THEN << [month             |-> month,
                   base_volume       |-> base[month],
                   comparison_volume |-> comp[month],
                   percent_change    |-> PctChange(Int2F(comp[month]), Int2F(base[month]))] >>
          ELSE <<>>)
         \o YearChanges(base, comp, month + 1)

RECURSIVE SumPct(_)
SumPct(changes) ==
    IF changes = <<>> THEN Int2F(0)
    ELSE RatAdd(Head(changes).percent_change, SumPct(Tail(changes)))

YearSchoolTrend(table, w, school) ==
    LET school_chats == SchoolChats(table, school.queues)
        changes == YearChanges(YearVolumes(school_chats, w.base_year),
                               YearVolumes(school_chats, w.comparison_year), 1)
        total_base == SumSeq(Column(changes, "base_volume"))
        total_comp == SumSeq(Column(changes, "comparison_volume"))
        sum_pct == SumPct(changes)
    IN  IF school.queues = {} THEN <<>>
        ELSE IF Len(school_chats) = 0 THEN <<>>
        ELSE IF changes = <<>> THEN <<>>
        ELSE << [school                |-> school.short_name,
                 changes               |-> changes,
                 average_change        |-> Rat(sum_pct.n, sum_pct.d * Len(changes)),
                 total_base_year       |-> total_base,
                 total_comparison_year |-> total_comp,
                 overall_change        |-> PctChange(Int2F(total_comp), Int2F(total_base))] >>

RECURSIVE YearTrendsFrom(_, _, _)
YearTrendsFrom(table, w, schools) ==
    IF schools = <<>> THEN <<>>
    ELSE YearSchoolTrend(table, w, Head(schools)) \o YearTrendsFrom(table, w, Tail(schools))

\* ChatTrendAnalysis.analyze_trends: the entries of the returned dict, in insertion order
ChatTrends(table, w) == YearTrendsFrom(table, w, SchoolDict)

\* analyze_trends is called on the table as it is at the call; the year and
\* month columns are added to the copy school_chats, self.df is only read
ChatTrendAnalyze ==
    /\ prog = "chat_trend" /\ pc \in {"ready", "analyzed"}
    /\ analyses.left > 0
    /\ trends' = ChatTrends(df, win)
    /\ analyses' = [left |-> analyses.left - 1,
                    seen |-> Append(analyses.seen,
                                    [monthly |-> <<>>, trends |-> ChatTrends(df, win)])]
    /\ pc' = "analyzed"
    /\ UNCHANGED <<prog, period, current_date, end_dt, all_chats, calls,
                   retries, win, df,
                   school_name, result, report, other,
                   gen_report, tasks, chord>>

------------------------------------------------------------------------------
(* SchoolChatAnalytics.__init__ and analyze_school *)

\* school['school']['full_name'] of the directory entries
FullName == [A |-> "University A", B |-> "University B", E |-> "University E"]

\* the names a caller passes: short names, a full name, other capitals, and
\* a name of no school
SchoolArgs == {"A", "a", "University A", "E", "Z"}

\* str.lower() on the strings that occur
Lower(str) ==
    CASE str = "A" -> "a"
      [] str = "B" -> "b"
      [] str = "E" -> "e"
      [] str = "Z" -> "z"
      [] str = "University A" -> "university a"
      [] str = "University B" -> "university b"
      [] str = "University E" -> "university e"
      [] OTHER -> str

\* _find_school: the position of the first entry whose full or short name is
\* the argument, capitals ignored; 0 for None
FindSchool(name) ==
    LET hits == {j \in 1..Len(SchoolDict) :
                    \/ Lower(name) = Lower(FullName[SchoolDict[j].short_name])
                    \/ Lower(name) = Lower(SchoolDict[j].short_name)}
    IN  IF hits = {} THEN 0 ELSE CHOOSE j \in hits : \A h \in hits : j <= h

\* raise ValueError(f"School '{school_name}' not found")
SchoolNotFound ==
    [kind |-> "raise", exc |-> "ValueError", message |-> "School not found", value |-> <<>>]

\* raise ValueError(f"No chats found for {self.school_name} in the specified date range")
NoChatsFound ==
    [kind |-> "raise", exc |-> "ValueError", message |-> "No chats found", value |-> <<>>]

\* `return analyzer` with the analyzer constructed
ReturnAnalyzer == [kind |-> "analyzer", exc |-> "", message |-> "", value |-> <<>>]

\* the date ranges analyze_school is called with: a day with records of
\* every shape, and two days with records of two schools
SchoolWindows ==
    { [start |-> Date(2024, 1, 31), end |-> Date(2024, 1, 31)],
      [start |-> Date(2022, 11, 30), end |-> Date(2022, 12, 1)] }

\* analyze_school(school_name, start_date, end_date, generate_report) is
\* called and constructs SchoolChatAnalytics
InitSchool ==
    \E w \in SchoolWindows, name \in SchoolArgs, g \in BOOLEAN :
        /\ prog = "school" /\ pc = "find" /\ period = "range"
        /\ current_date = w.start /\ end_dt = w.end
        /\ win = [NoWin EXCEPT !.current_start = w.start, !.current_end = w.end]
        /\ school_name = name /\ gen_report = g /\ other = NoOther
        /\ Idle

\* __init__ up to _fetch_data: the school is looked up
SchoolFind ==
    /\ prog = "school" /\ pc = "find"
    /\ IF FindSchool(school_name) = 0
       THEN pc' = "raised" /\ result' = SchoolNotFound
       ELSE pc' = "fetch" /\ result' = result
    /\ UNCHANGED <<prog, period, current_date, end_dt, all_chats, calls,
                   retries, win, df, trends, school_name, report, other,
                   gen_report, tasks, chord, analyses>>

\* OfQueues keeping every chat of the day
OfQueuesAll(chats, queues) == chats

\* the chats of a day that are in one of the school's queues
OfQueues(chats, queues) == SelectSeq(chats, LAMBDA c : c.queue \in queues)

\* SchoolChatAnalytics._fetch_data: the body of `while current_date <= end_dt`
SchoolFetchStep ==
    /\ prog = "school" /\ pc = "fetch"
    /\ DateLE(current_date, end_dt)
    /\ \E out \in ListDay(current_date) :
        LET school_chats == OfQueues(out.chats, SchoolDict[FindSchool(school_name)].queues)
        IN  /\ calls' = Append(calls, Call(current_date, out))
            /\ Len(all_chats) + Len(school_chats) <= MaxRecs
            /\ all_chats' = all_chats \o school_chats
    /\ current_date' = AddDay(current_date)
    /\ UNCHANGED <<prog, pc, period, end_dt, retries, win, df, trends,
                   school_name, result, report, other,
                   gen_report, tasks, chord, analyses>>

\* SchoolChatAnalytics._fetch_data after the loop, and _prepare_data
SchoolFetchReturn ==
    /\ prog = "school" /\ pc = "fetch"
    /\ ~DateLE(current_date, end_dt)
    /\ IF all_chats = <<>>
       THEN pc' = "raised" /\ result' = NoChatsFound /\ df' = df
       ELSE pc' = "ready" /\ result' = result /\ df' = MakeFrame(all_chats)
    /\ UNCHANGED <<prog, period, current_date, end_dt, all_chats, calls,
                   retries, win, trends, school_name, report, other,
                   gen_report, tasks, chord, analyses>>

\* the analysis_tasks list of analyze_school
TaskNames ==
    << "Generate HTML report", "Generate visualizations", "Generate time analysis",
       "Generate advanced time analysis", "Generate chord diagram" >>

\* RunTask with the exception of a task caught by the outer try block of
\* analyze_school, which returns the analyzer
RunTaskAbort ==
    /\ prog = "school" /\ pc = "ready" /\ Len(tasks) < 4
    /\ \E raised \in BOOLEAN :
        LET n == Len(tasks) + 1
            called == (n # 1 \/ gen_report)
        IN  /\ raised => called
            /\ tasks' = Append(tasks, [name |-> TaskNames[n], called |-> called,
                                       raised |-> raised])
            /\ pc' = IF raised THEN "returned" ELSE pc
            /\ result' = IF raised THEN ReturnAnalyzer ELSE result
    /\ UNCHANGED <<prog, period, current_date, end_dt, all_chats, calls,
                   retries, win, df, trends, school_name, report, other,
                   gen_report, chord, analyses>>

\* analyze_school: one iteration of the loop over analysis_tasks for one of
\* the first four tasks. The first calls generate_html_report only when
\* generate_report is true; a task that is called returns or raises, and the
\* exception is caught inside the loop
RunTask ==
    /\ prog = "school" /\ pc = "ready" /\ Len(tasks) < 4
    /\ \E raised \in BOOLEAN :
        LET n == Len(tasks) + 1
            called == (n # 1 \/ gen_report)
        IN  /\ raised => called
            /\ tasks' = Append(tasks, [name |-> TaskNames[n], called |-> called,
                                       raised |-> raised])
            /\ pc' = pc
            /\ result' = result
    /\ UNCHANGED <<prog, period, current_date, end_dt, all_chats, calls,
                   retries, win, df, trends, school_name, report, other,
                   gen_report, chord, analyses>>

\* find_school_by_operator_suffix raises on an operator that is not a string
OperatorLookupRaises(operator) == operator = "#7"

\* find_school_by_operator_suffix: the school of the suffix, "Unknown" for a
\* name without a suffix, nothing ("") for a suffix of no school
OperatorSchool(operator) ==
    CASE operator = "op_a" -> "A"
      [] operator = "op_b" -> "B"
      [] operator = "op_zz" -> ""
      [] OTHER -> "Unknown"

\* find_school_by_queue_or_profile_name: the school that has the queue
QueueSchool(queue) ==
    LET hits == {j \in 1..Len(SchoolDict) : queue \in SchoolDict[j].queues}
    IN  IF hits = {} THEN "Unknown"
        ELSE SchoolDict[CHOOSE j \in hits : TRUE].short_name

\* Skip leaving skipped_chats as it is
SkipUncounted(acc, counter) ==
    [acc EXCEPT !.error_details[counter] = @ + 1]

\* error_details[counter] += 1; skipped_chats += 1; continue
Skip(acc, counter) ==
    [acc EXCEPT !.error_details[counter] = @ + 1, !.skipped_chats = @ + 1]

\* the body of the loop over self.df.iterrows() for one chat
ChordChat(acc, chat) ==
    IF chat.operator = NoOperator THEN Skip(acc, "no_operator")
    ELSE IF OperatorLookupRaises(chat.operator) THEN Skip(acc, "other_errors")
    ELSE IF OperatorSchool(chat.operator) = "" THEN Skip(acc, "unknown_operator_school")
    ELSE IF QueueSchool(chat.queue) = "" THEN Skip(acc, "unknown_queue_school")
    ELSE IF OperatorSchool(chat.operator) = "Unknown" \/ QueueSchool(chat.queue) = "Unknown"
         THEN Skip(acc, "unknown_queue_school")
    ELSE [acc EXCEPT !.flow_data = Append(@, [from  |-> QueueSchool(chat.queue),
                                             to    |-> OperatorSchool(chat.operator),
                                             value |-> 1])]

\* the loop over self.df.iterrows(), from the locals acc
RECURSIVE ChordLoop(_, _)
ChordLoop(acc, table) ==
    IF table = <<>> THEN acc
    ELSE ChordLoop(ChordChat(acc, Head(table)), Tail(table))

\* flow_df.groupby(['from', 'to']).size() as a list of records, in key order
FlowList(flow_data) ==
    LET names == [j \in 1..Len(SchoolDict) |-> SchoolDict[j].short_name]
        n == Len(names)
        size(f, t) == Len(SelectSeq(flow_data, LAMBDA r : r.from = f /\ r.to = t))
        all == [i \in 1..(n * n) |->
                   [from  |-> names[((i - 1) \div n) + 1],
                    to    |-> names[((i - 1) % n) + 1],
                    value |-> size(names[((i - 1) \div n) + 1], names[((i - 1) % n) + 1])]]
    IN  SelectSeq(all, LAMBDA r : r.value > 0)

\* analyze_school: the fifth task. generate_chord_diagram runs its loop,
\* returns None when flow_data is empty, else writes its file and returns the
\* flow list; an exception while writing is caught and None is returned
GenerateChordDiagram ==
    /\ prog = "school" /\ pc = "ready" /\ Len(tasks) = 4
    /\ \E written \in BOOLEAN :
        LET acc == ChordLoop([NoChord EXCEPT !.ran = TRUE], df)
        IN  chord' = IF acc.flow_data = <<>>
                     THEN [acc EXCEPT !.returned = [kind |-> "none", value |-> <<>>]]
                     ELSE IF written
                     THEN [acc EXCEPT !.returned = [kind |-> "list",
                                                    value |-> FlowList(acc.flow_data)],
                                      !.file = TRUE]
                     ELSE [acc EXCEPT !.returned = [kind |-> "none", value |-> <<>>]]
    /\ tasks' = Append(tasks, [name |-> TaskNames[5], called |-> TRUE, raised |-> FALSE])
    /\ UNCHANGED <<prog, pc, period, current_date, end_dt, all_chats, calls,
                   retries, win, df, trends, school_name, result, report, other,
                   gen_report, analyses>>

\* analyze_school returns: an exception of the constructor is caught and the
\* analyzer, still None, is returned without a task started; otherwise the
\* analyzer is returned after the loop over analysis_tasks
AnalyzeSchoolReturn ==
    /\ prog = "school"
    /\ \/ pc = "raised"
       \/ pc = "ready" /\ Len(tasks) = Len(TaskNames)
    /\ pc' = "returned"
    /\ result' = IF pc = "raised" THEN ReturnNone ELSE ReturnAnalyzer
    /\ UNCHANGED <<prog, period, current_date, end_dt, all_chats, calls,
                   retries, win, df, trends, school_name, report, other,
                   gen_report, tasks, chord, analyses>>

------------------------------------------------------------------------------
(* EnhancedChatAnalytics.compare_time_periods *)

\* the queue and the date range the analyzer is constructed with
EnhancedQueues == {"qa"}
EnhancedWindow == [start |-> Date(2024, 1, 31), end |-> Date(2024, 2, 1)]

\* the periods compare_time_periods is called with: a day before the range,
\* which has no record, and the two days of the range
Periods ==
    { [start |-> Date(2024, 1, 30), end |-> Date(2024, 1, 30)],
      [start |-> Date(2024, 1, 31), end |-> Date(2024, 1, 31)],
      [start |-> Date(2024, 2, 1),  end |-> Date(2024, 2, 1)],
      [start |-> Date(2024, 1, 31), end |-> Date(2024, 2, 1)] }

\* EnhancedChatAnalytics(school_queue, start_date, end_date) has been
\* constructed: both days were fetched, the chats of the queue kept, and the
\* list was not empty
InitEnhanced ==
    \E q \in EnhancedQueues :
    \E o1 \in ListDay(EnhancedWindow.start), o2 \in ListDay(EnhancedWindow.end) :
    \E got \in {OfQueues(o1.chats, {q}) \o OfQueues(o2.chats, {q})} :
        /\ got # <<>>
        /\ Len(got) <= MaxRecs
        /\ prog = "enhanced" /\ pc = "ready" /\ period = "range"
        /\ win = NoWin
        /\ current_date = AddDay(EnhancedWindow.end) /\ end_dt = EnhancedWindow.end
        /\ calls = << Call(EnhancedWindow.start, o1), Call(EnhancedWindow.end, o2) >>
        /\ all_chats = got
        /\ df = MakeFrame(got)
        /\ retries = 0 /\ trends = <<>>
        /\ result = NoResult /\ report = NoReport
        /\ school_name = q /\ gen_report = TRUE /\ other = NoOther
        /\ tasks = <<>> /\ chord = NoChord /\ analyses = OneCall

\* day_name() of a date (Zeller's congruence), names as pandas gives them
DayName(dt) ==
    LET m == IF dt.m < 3 THEN dt.m + 12 ELSE dt.m
        y == IF dt.m < 3 THEN dt.y - 1 ELSE dt.y
        h == (dt.d + ((13 * (m + 1)) \div 5) + (y % 100) + ((y % 100) \div 4)
              + ((y \div 100) \div 4) + 5 * (y \div 100)) % 7
    IN  <<"Saturday", "Sunday", "Monday", "Tuesday", "Wednesday", "Thursday", "Friday">>[h + 1]

\* the day names in the order Series.mode() sorts them
SortedDayNames ==
    <<"Friday", "Monday", "Saturday", "Sunday", "Thursday", "Tuesday", "Wednesday">>

\* the first position of seq whose count is the largest
FirstMax(count, n) ==
    CHOOSE i \in 1..n :
        /\ \A j \in 1..n : count[j] <= count[i]
        /\ \A j \in 1..(i - 1) : count[j] < count[i]

\* _prepare_data: self.df['hour'] = self.df['started'].dt.hour is a float64
\* column when some row of the table has started = NaT, an int32 column
\* otherwise
HourIsFloat(table) == \E i \in 1..Len(table) : table[i].started = NaT

\* get_period_stats(start, end): the statistics, or the exception of idxmax
\* on a period without rows; peak_hour has the type of the hour column
GetPeriodStats(table, p) ==
    LET period_df == InPeriod(table, p.start, p.end)
        hours == [h \in 1..2 |-> Len(SelectSeq(period_df, LAMBDA r : r.started.tod = h - 1))]
        names == [i \in 1..7 |->
                     Len(SelectSeq(period_df,
                                   LAMBDA r : DayName(DayOf(r.started)) = SortedDayNames[i]))]
        operators == {period_df[i].operator : i \in 1..Len(period_df)} \ {NoOperator}
        dates == {DayOf(period_df[i].started) : i \in 1..Len(period_df)}
    IN  IF Len(period_df) = 0
        THEN [raised |-> TRUE, exc |-> "ValueError",
              total_chats |-> 0, avg_duration |-> NaN, avg_wait |-> NaN,
              peak_hour |-> Null, busiest_day |-> "", unique_operators |-> 0,
              chats_per_day |-> NaN]
        ELSE [raised |-> FALSE, exc |-> "",
              total_chats |-> Len(period_df),
              avg_duration |-> Mean(Column(period_df, "duration")),
              avg_wait |-> Mean(Column(period_df, "wait")),
              peak_hour |-> IF HourIsFloat(table) THEN Int2F(FirstMax(hours, 2) - 1)
                                                  ELSE FirstMax(hours, 2) - 1,
              busiest_day |-> SortedDayNames[FirstMax(names, 7)],
              unique_operators |-> Cardinality(operators),
              chats_per_day |-> Rat(Len(period_df), Cardinality(dates))]

\* the entry of comparison for a statistic that is an int or a float
WithPct(key, v1, v2) ==
    [key |-> key, has_pct |-> TRUE, period1 |-> v1, period2 |-> v2,
     pct_change |-> PctChange(v2, v1)]

\* the entry of comparison for any other statistic: no pct_change key
WithoutPct(key, v1, v2) ==
    [key |-> key, has_pct |-> FALSE, period1 |-> v1, period2 |-> v2]

\* raise exc
Raise(exc) == [kind |-> "raise", exc |-> exc, message |-> "", value |-> <<>>]

\* compare_time_periods(period1, period2): what it returns or raises. The
\* division of the int statistics raises ZeroDivisionError on a zero
\* period-1 value, the division of the numpy floats gives inf or NaN.
\* isinstance(v, (int, float)) holds for an int and a numpy.float64, not for
\* a numpy.int32 or a str
Compare(table, period1, period2) ==
    LET stats1 == GetPeriodStats(table, period1)
        stats2 == GetPeriodStats(table, period2)
    IN  IF stats1.raised THEN Raise(stats1.exc)
        ELSE IF stats2.raised THEN Raise(stats2.exc)
        ELSE IF stats1.total_chats = 0 \/ stats1.unique_operators = 0
             THEN Raise("ZeroDivisionError")
        ELSE [kind |-> "dict", exc |-> "", message |-> "",
              value |-> << WithPct("total_chats", Int2F(stats1.total_chats),
                                   Int2F(stats2.total_chats)),
                           WithPct("avg_duration", stats1.avg_duration, stats2.avg_duration),
                           WithPct("avg_wait", stats1.avg_wait, stats2.avg_wait),
                           IF HourIsFloat(table)
                           THEN WithPct("peak_hour", stats1.peak_hour, stats2.peak_hour)
                           ELSE WithoutPct("peak_hour", stats1.peak_hour,
                                           stats2.peak_hour),
                           WithoutPct("busiest_day", stats1.busiest_day,
                                      stats2.busiest_day),
                           WithPct("unique_operators", Int2F(stats1.unique_operators),
                                   Int2F(stats2.unique_operators)),
                           WithPct("chats_per_day", stats1.chats_per_day,
                                   stats2.chats_per_day) >>]

\* compare_time_periods is called on the analyzer
CompareTimePeriods ==
    /\ prog = "enhanced" /\ pc = "ready"
    /\ \E period1 \in Periods, period2 \in Periods :
        /\ win' = [NoWin EXCEPT !.prev_start = period1.start, !.prev_end = period1.end,
                                !.current_start = period2.start,
                                !.current_end = period2.end]
        /\ result' = Compare(df, period1, period2)
    /\ pc' = "compared"
    /\ UNCHANGED <<prog, period, current_date, end_dt, all_chats, calls,
                   retries, df, trends, school_name, report, other,
                   gen_report, tasks, chord, analyses>>

------------------------------------------------------------------------------
(* Two invocations at the same time: DateRangeTrendAnalysis in the          *)
(* variables above and ServiceAnalytics in `other`                          *)

\* the windows of the two invocations
PairWindows ==
    { [mine   |-> [start |-> Date(2024, 1, 31), end |-> Date(2024, 1, 31)],
       theirs |-> [start |-> Date(2022, 12, 1), end |-> Date(2022, 12, 1)]] }

\* DateRangeTrendAnalysis.__init__ and ServiceAnalytics.__init__, each up to
\* its fetch loop
InitPair ==
    \E pw \in PairWindows :
        /\ prog = "date_range" /\ pc = "fetch" /\ period = "previous"
        /\ win = [NoWin EXCEPT !.current_start = pw.mine.start,
                               !.current_end = pw.mine.end,
                               !.prev_start = MinusOneYear(pw.mine.start),
                               !.prev_end = MinusOneYear(pw.mine.end)]
        /\ current_date = win.prev_start /\ end_dt = win.prev_end
        /\ school_name = "" /\ gen_report = TRUE
        /\ other = [NoOther EXCEPT !.pc = "fetch",
                                   !.start_dt = pw.theirs.start,
                                   !.current_date = pw.theirs.start,
                                   !.end_dt = pw.theirs.end]
        /\ Idle

\* OtherFetchStep with one list shared by the two invocations
OtherFetchStepShared ==
    /\ other.pc = "fetch"
    /\ DateLE(other.current_date, other.end_dt)
    /\ \E out \in ListDay(other.current_date) :
        /\ Len(all_chats) + Len(out.chats) <= MaxRecs
        /\ all_chats' = all_chats \o out.chats
        /\ other' = [other EXCEPT !.calls = Append(@, Call(other.current_date, out)),
                                  !.current_date = AddDay(@)]
    /\ UNCHANGED <<prog, pc, period, current_date, end_dt, calls,
                   retries, win, df, trends, school_name, result, report,
                   gen_report, tasks, chord, analyses>>

\* ServiceAnalytics._fetch_all_data: the body of `while current_date <= end_dt`,
\* on the locals of that call
OtherFetchStep ==
    /\ other.pc = "fetch"
    /\ DateLE(other.current_date, other.end_dt)
    /\ \E out \in ListDay(other.current_date) :
        /\ Len(other.all_chats) + Len(out.chats) <= MaxRecs
        /\ other' = [other EXCEPT !.calls = Append(@, Call(other.current_date, out)),
                                  !.all_chats = @ \o out.chats,
                                  !.current_date = AddDay(@)]
    /\ UNCHANGED <<prog, pc, period, current_date, end_dt, all_chats, calls,
                   retries, win, df, trends, school_name, result, report,
                   gen_report, tasks, chord, analyses>>

\* ServiceAnalytics._fetch_all_data returns and _prepare_data converts the
\* timestamps; self.df['started'] of a table without rows raises KeyError
OtherPrepare ==
    /\ other.pc = "fetch"
    /\ ~DateLE(other.current_date, other.end_dt)
    /\ other' = IF other.all_chats = <<>>
                THEN [other EXCEPT !.pc = "error"]
                ELSE [other EXCEPT !.pc = "ready", !.df = MakeFrame(other.all_chats)]
    /\ UNCHANGED <<prog, pc, period, current_date, end_dt, all_chats, calls,
                   retries, win, df, trends, school_name, result, report,
                   gen_report, tasks, chord, analyses>>

\* ServiceAnalytics.analyze_service_overview: 'total_chats': len(self.df)
OtherOverview ==
    /\ other.pc = "ready"
    /\ other' = [other EXCEPT !.pc = "analyzed", !.total_chats = Len(other.df)]
    /\ UNCHANGED <<prog, pc, period, current_date, end_dt, all_chats, calls,
                   retries, win, df, trends, school_name, result, report,
                   gen_report, tasks, chord, analyses>>

\* one run is one invocation of one entry point, or a pair of invocations
Init == InitGetChats \/ InitDateRange \/ InitChatTrend \/ InitSchool \/ InitPair

Next ==
    \/ GetChatsStep
    \/ GetChatsReturn
    \/ FetchRangeStep
    \/ FetchRangeNext
    \/ FetchDataReturn
    \/ ChatTrendStep
    \/ ChatTrendNextYear
    \/ ChatTrendFrame
    \/ AnalyzeTrends
    \/ GenerateReport
    \/ ChatTrendAnalyze
    \/ SchoolFind
    \/ SchoolFetchStep
    \/ SchoolFetchReturn
    \/ RunTask
    \/ GenerateChordDiagram
    \/ AnalyzeSchoolReturn
    \/ OtherFetchStep
    \/ OtherPrepare
    \/ OtherOverview

Spec == Init /\ [][Next]_vars

\* one entry point at a time
NextDateRange ==
    \/ FetchRangeStep
    \/ FetchRangeNext
    \/ FetchDataReturn
    \/ AnalyzeTrends
    \/ GenerateReport

SpecDateRange == InitDateRange /\ [][NextDateRange]_vars

NextLong == AnalyzeTrends \/ GenerateReport

SpecLong == InitLong /\ [][NextLong]_vars

\* the analyzers used directly
NextDirect == AnalyzeTrends \/ GenerateReport \/ ChatTrendAnalyze

SpecDirect == InitDirect /\ [][NextDirect]_vars

NextEnhanced == CompareTimePeriods

SpecEnhanced == InitEnhanced /\ [][NextEnhanced]_vars

NextChatTrend == ChatTrendStep \/ ChatTrendNextYear \/ ChatTrendFrame \/ ChatTrendAnalyze

SpecChatTrend == InitChatTrend /\ [][NextChatTrend]_vars

NextSchool ==
    \/ SchoolFind
    \/ SchoolFetchStep
    \/ SchoolFetchReturn
    \/ RunTask
    \/ GenerateChordDiagram
    \/ AnalyzeSchoolReturn

SpecSchool == InitSchool /\ [][NextSchool]_vars

NextPair == NextDateRange \/ OtherFetchStep \/ OtherPrepare \/ OtherOverview

SpecPair == InitPair /\ [][NextPair]_vars

------------------------------------------------------------------------------
(* What the properties below measure on the table, independently of the    *)
(* operators above                                                         *)

QueuesOf(name) ==
    LET k == CHOOSE j \in 1..Len(SchoolDict) : SchoolDict[j].short_name = name
    IN  SchoolDict[k].queues

\* the rows of df that belong to the school
Idx(name) == {i \in 1..Len(df) : df[i].queue \in QueuesOf(name)}

\* those of them the two period filters keep
RefIdx(name) ==
    {i \in Idx(name) : /\ TsLE(Midnight(win.prev_start), df[i].started)
                       /\ TsLE(df[i].started, Midnight(win.prev_end))}
CurIdx(name) ==
    {i \in Idx(name) : /\ TsLE(Midnight(win.current_start), df[i].started)
                       /\ TsLE(df[i].started, Midnight(win.current_end))}

InMonth(I, m) == {i \in I : df[i].started.m = m}
MonthsOf(I) == {df[i].started.m : i \in I}

RECURSIVE SumField(_, _)
SumField(I, name) ==
    IF I = {} THEN 0
    ELSE LET i == CHOOSE x \in I : TRUE IN df[i][name] + SumField(I \ {i}, name)

WithField(I, name) == {i \in I : df[i][name] # Null}

\* x is the mean of the non-null values of the field over the rows I
IsMeanOf(x, I, name) ==
    IF WithField(I, name) = {} THEN IsNaN(x)
    ELSE /\ x.k = "num"
         /\ x.n * Cardinality(WithField(I, name)) = SumField(WithField(I, name), name) * x.d

\* x = (cur - ref) / ref * 100 for integers cur and ref > 0
IsPctOfInts(x, cur, ref) == x.k = "num" /\ x.n * ref = (cur - ref) * 100 * x.d

RECURSIVE DaysBetween(_, _)
DaysBetween(a, b) == IF DateLE(a, b) THEN <<a>> \o DaysBetween(AddDay(a), b) ELSE <<>>

\* the days the running entry point has to fetch, in order
RangeDays ==
    IF prog = "get_chats" THEN DaysBetween(win.current_start, win.current_end)
    ELSE DaysBetween(win.prev_start, win.prev_end)
         \o DaysBetween(win.current_start, win.current_end)

RECURSIVE Returned(_)
Returned(cs) ==
    IF cs = <<>> THEN <<>>
    ELSE (IF Head(cs).raised THEN <<>> ELSE Head(cs).chats) \o Returned(Tail(cs))

Fetching == pc \in {"loop", "fetch"}

------------------------------------------------------------------------------
(* Properties *)

\* C1: in get_chats_between_dates and in fetch_range every day of the range
\* is attempted exactly once, in ascending order, whatever days raise; the
\* accumulated list is the concatenation, in day order, of what the calls
\* that did not raise returned; the fetch never ends in an error.
C1_PartialFailureTolerance ==
    prog \in {"get_chats", "date_range"} =>
        LET days == Column(calls, "day")
        IN  /\ pc # "error"
            /\ Len(days) <= Len(RangeDays)
            /\ days = SubSeq(RangeDays, 1, Len(days))
            /\ (~Fetching => days = RangeDays)
            /\ all_chats = Returned(calls)

\* C1 witness: a four-day fetch in which the first and the third day raised
\* and the other two days returned records
C1_Witness ==
    /\ prog = "date_range" /\ pc = "ready" /\ Len(calls) = 4
    /\ calls[1].raised /\ calls[3].raised
    /\ ~calls[2].raised /\ calls[2].chats # <<>>
    /\ ~calls[4].raised /\ calls[4].chats # <<>>
    /\ Len(df) = Len(calls[2].chats) + Len(calls[4].chats)

\* C2: in ChatTrendAnalysis._fetch_data a raising call of list_day is followed
\* by the next day (the day is skipped).
C2_RaiseSkipsDay ==
    [][(prog = "chat_trend" /\ retries' > retries) => current_date' = AddDay(current_date)]_vars

\* C3: the aggregate percent change of an institution is the percent change
\* of the summed counts: (current_total - reference_total) / reference_total * 100
\* (volume_change over the records of the two windows in
\* DateRangeTrendAnalysis, overall_change over the rows' volumes in
\* ChatTrendAnalysis).
C3_AggregateOfSums ==
    pc = "analyzed" =>
        \A k \in 1..Len(trends) :
            LET e == trends[k]
            IN  IF prog = "date_range"
                THEN /\ Cardinality(RefIdx(e.school)) > 0
                     /\ IsPctOfInts(e.overall_changes.volume_change,
                                    Cardinality(CurIdx(e.school)),
                                    Cardinality(RefIdx(e.school)))
                ELSE /\ SumSeq(Column(e.changes, "base_volume")) > 0
                     /\ IsPctOfInts(e.overall_change,
                                    SumSeq(Column(e.changes, "comparison_volume")),
                                    SumSeq(Column(e.changes, "base_volume")))

\* C3 witness: an institution with two monthly rows whose aggregate change
\* differs from the mean of its monthly changes
C3_Witness ==
    /\ prog = "date_range" /\ pc = "analyzed"
    /\ \E k \in 1..Len(trends) :
        /\ Len(trends[k].changes) = 2
        /\ trends[k].overall_changes.volume_change # MeanVolumePct(trends[k].changes)

\* the reference and the current records of a school, for either analysis
RefSet(name) ==
    IF prog = "chat_trend" THEN {i \in Idx(name) : df[i].started.y = win.base_year}
    ELSE RefIdx(name)
CurSet(name) ==
    IF prog = "chat_trend" THEN {i \in Idx(name) : df[i].started.y = win.comparison_year}
    ELSE CurIdx(name)

RowVolumePct(row) ==
    IF prog = "chat_trend" THEN row.percent_change ELSE row.percent_change_volume

\* a value that is neither a number nor an infinity
Undefined(x) == x.k \notin {"num", "inf"}

SchoolNames == {SchoolDict[j].short_name : j \in 1..Len(SchoolDict)}

\* C4: where the reference volume of a month is 0 and the current volume is
\* 5, the output has a row for that month whose percent change of volume is
\* the "undefined" value: not 0, not an infinity.
C4_ZeroReferenceSentinel ==
    pc = "analyzed" =>
        \A name \in SchoolNames, m \in 1..12 :
            (/\ Cardinality(InMonth(RefSet(name), m)) = 0
             /\ Cardinality(InMonth(CurSet(name), m)) = 5)
            => \E k \in 1..Len(trends) :
                /\ trends[k].school = name
                /\ \E i \in 1..Len(trends[k].changes) :
                    /\ trends[k].changes[i].month = m
                    /\ Undefined(RowVolumePct(trends[k].changes[i]))

\* the mean of the field over the rows I is zero or does not exist
ZeroOrNoMean(I, name) ==
    WithField(I, name) = {} \/ SumField(WithField(I, name), name) = 0

\* C5: in every TrendRow and in overall_changes, a percent change of mean
\* duration or mean wait whose reference mean is zero or undefined is
\* reported as an "undefined" value, never as a number such as 0.
C5_UndefinedMeanChange ==
    (prog = "date_range" /\ pc = "analyzed") =>
        \A k \in 1..Len(trends) :
            LET e == trends[k]
                all == RefIdx(e.school)
            IN  /\ \A i \in 1..Len(e.changes) :
                    LET ref == InMonth(all, e.changes[i].month)
                    IN  /\ ZeroOrNoMean(ref, "duration")
                            => Undefined(e.changes[i].percent_change_duration)
                        /\ ZeroOrNoMean(ref, "wait")
                            => Undefined(e.changes[i].percent_change_wait)
                /\ ZeroOrNoMean(all, "duration") => Undefined(e.overall_changes.duration_change)
                /\ ZeroOrNoMean(all, "wait") => Undefined(e.overall_changes.wait_change)

YearApart ==
    /\ win.prev_start.y = win.prev_end.y
    /\ win.current_start.y = win.current_end.y
    /\ win.current_start.y = win.prev_start.y + 1

RowsOfMonth(changes, m) == {i \in 1..Len(changes) : changes[i].month = m}

\* C6: with the reference window inside year Y and the current window inside
\* year Y+1, every institution of the output has exactly one TrendRow for
\* each month that has a bucket in both aggregations and no TrendRow for any
\* other month.
C6_MonthAlignment ==
    (prog = "date_range" /\ pc = "analyzed" /\ YearApart) =>
        \A k \in 1..Len(trends) :
            LET both == MonthsOf(RefIdx(trends[k].school)) \cap MonthsOf(CurIdx(trends[k].school))
            IN  \A m \in 1..12 :
                    Cardinality(RowsOfMonth(trends[k].changes, m)) = IF m \in both THEN 1 ELSE 0

\* C6 witness: an institution with two reference months of which only one has
\* a current bucket, and one row
C6_Witness ==
    /\ prog = "date_range" /\ pc = "analyzed" /\ YearApart
    /\ \E k \in 1..Len(trends) :
        /\ Cardinality(MonthsOf(RefIdx(trends[k].school))) = 2
        /\ Cardinality(MonthsOf(CurIdx(trends[k].school))) = 1
        /\ Len(trends[k].changes) = 1

\* C7: an institution with no record in the reference window, or none in the
\* current window, is not a key of the mapping analyze_trends returns.
C7_EmptyPeriodOmitted ==
    (prog = "date_range" /\ pc = "analyzed") =>
        \A name \in SchoolNames :
            (RefIdx(name) = {} \/ CurIdx(name) = {})
            => \A k \in 1..Len(trends) : trends[k].school # name

\* C7 witness: school A has current records and no reference record and is
\* left out of an output that holds another school
C7_Witness ==
    /\ prog = "date_range" /\ pc = "analyzed"
    /\ RefIdx("A") = {} /\ CurIdx("A") # {}
    /\ Len(trends) = 1 /\ trends[1].school = "B"

\* x = (mean of cur - mean of ref) / mean of ref * 100 as floats compute it;
\* nothing is said where the reference mean is zero
IsPctOfMeans(x, cur, ref, name) ==
    LET nr == Cardinality(WithField(ref, name))
        sr == SumField(WithField(ref, name), name)
        nc == Cardinality(WithField(cur, name))
        sc == SumField(WithField(cur, name), name)
    IN  IF nr = 0 THEN IsNaN(x)
        ELSE IF sr = 0 THEN TRUE
        ELSE IF nc = 0 THEN IsNaN(x)
        ELSE x.k = "num" /\ x.n * nc * sr = (sc * nr - sr * nc) * 100 * x.d

\* C8: in each TrendRow prev_volume and current_volume are the two counts of
\* the month and the three percent changes are (current - reference) /
\* reference * 100 of the month's counts, mean durations and mean waits, each
\* from its own pair of values.
C8_RowPercentChanges ==
    (prog = "date_range" /\ pc = "analyzed") =>
        \A k \in 1..Len(trends) :
            \A i \in 1..Len(trends[k].changes) :
                LET row == trends[k].changes[i]
                    ref == InMonth(RefIdx(trends[k].school), row.month)
                    cur == InMonth(CurIdx(trends[k].school), row.month)
                IN  /\ row.prev_volume = Cardinality(ref)
                    /\ row.current_volume = Cardinality(cur)
                    /\ IsPctOfInts(row.percent_change_volume, Cardinality(cur), Cardinality(ref))
                    /\ IsPctOfMeans(row.percent_change_duration, cur, ref, "duration")
                    /\ IsPctOfMeans(row.percent_change_wait, cur, ref, "wait")

\* C8 witness: the row of the scenario at scale 1:25 (counts 2 and 3 for 50
\* and 75): mean duration 300 -> 270, mean wait 40 -> 60
C8_Witness ==
    /\ prog = "date_range" /\ pc = "analyzed"
    /\ \E k \in 1..Len(trends) : \E i \in 1..Len(trends[k].changes) :
        LET row == trends[k].changes[i]
            ref == InMonth(RefIdx(trends[k].school), row.month)
            cur == InMonth(CurIdx(trends[k].school), row.month)
        IN  /\ row.prev_volume = 2 /\ row.current_volume = 3
            /\ IsMeanOf(Int2F(300), ref, "duration") /\ IsMeanOf(Int2F(270), cur, "duration")
            /\ IsMeanOf(Int2F(40), ref, "wait") /\ IsMeanOf(Int2F(60), cur, "wait")
            /\ row.percent_change_volume = Int2F(50)
            /\ row.percent_change_duration = Int2F(-10)
            /\ row.percent_change_wait = Int2F(50)

\* the buckets _process_monthly_stats makes of the rows I of df
BucketsOf(I) ==
    ProcessMonthlyStats(SelectSeq(df, LAMBDA r : \E i \in I : df[i] = r))

\* the buckets count every record of their month and take the means over the non-null values
BucketsExact(I) ==
    LET b == BucketsOf(I)
    IN  /\ {<<b[j].year, b[j].month>> : j \in 1..Len(b)}
               = {<<df[i].started.y, df[i].started.m>> : i \in I}
        /\ \A j \in 1..Len(b) :
            LET rows == {i \in I : df[i].started.y = b[j].year /\ df[i].started.m = b[j].month}
            IN  /\ b[j].chats = Cardinality(rows)
                /\ IsMeanOf(b[j].avg_duration, rows, "duration")
                /\ IsMeanOf(b[j].avg_wait, rows, "wait")

\* C9: a record without accepted time and with a null wait is counted in the
\* volume of its month and left out of the mean wait, which is the mean over
\* the non-null waits; the same for a null duration and the mean duration.
C9_NullExcludedFromMean ==
    (prog = "date_range" /\ pc \in {"ready", "analyzed"}) =>
        /\ \A name \in SchoolNames : BucketsExact(RefIdx(name)) /\ BucketsExact(CurIdx(name))
        /\ \A k \in 1..Len(trends) :
            LET e == trends[k]
            IN  /\ e.total_stats.prev_period.total_chats = Cardinality(RefIdx(e.school))
                /\ e.total_stats.current_period.total_chats = Cardinality(CurIdx(e.school))
                /\ IsMeanOf(e.total_stats.prev_period.avg_wait, RefIdx(e.school), "wait")
                /\ IsMeanOf(e.total_stats.current_period.avg_wait, CurIdx(e.school), "wait")
                /\ IsMeanOf(e.total_stats.prev_period.avg_duration, RefIdx(e.school), "duration")
                /\ IsMeanOf(e.total_stats.current_period.avg_duration, CurIdx(e.school), "duration")
                /\ \A i \in 1..Len(e.changes) :
                    /\ e.changes[i].prev_volume
                           = Cardinality(InMonth(RefIdx(e.school), e.changes[i].month))
                    /\ e.changes[i].current_volume
                           = Cardinality(InMonth(CurIdx(e.school), e.changes[i].month))

\* C9 witness: a current bucket of two records, one abandoned and one with
\* wait 60: the row counts both and the period's mean wait is 60
C9_Witness ==
    /\ prog = "date_range" /\ pc = "analyzed"
    /\ \E k \in 1..Len(trends) :
        LET cur == CurIdx(trends[k].school)
        IN  /\ Cardinality(cur) = 2
            /\ \E i \in cur : df[i].accepted = NaT /\ df[i].wait = Null /\ df[i].duration = Null
            /\ \E i \in cur : df[i].wait = 60
            /\ trends[k].changes[1].current_volume = 2
            /\ trends[k].total_stats.current_period.avg_wait = Int2F(60)

\* the rows of the school whose started falls on a day of [lo, hi]
OnDays(name, lo, hi) ==
    {i \in Idx(name) : DateLE(lo, DayOf(df[i].started)) /\ DateLE(DayOf(df[i].started), hi)}

\* C10: the records assigned to a window are exactly the institution's
\* records started on a day d with start_date <= d <= end_date, at whatever
\* time of day.
C10_InclusiveWindow ==
    (prog = "date_range" /\ pc = "analyzed") =>
        \A k \in 1..Len(trends) :
            LET e == trends[k]
            IN  /\ e.total_stats.prev_period.total_chats
                       = Cardinality(OnDays(e.school, win.prev_start, win.prev_end))
                /\ e.total_stats.current_period.total_chats
                       = Cardinality(OnDays(e.school, win.current_start, win.current_end))

\* the rows of df whose queue belongs to no institution
Unmatched == {i \in 1..Len(df) : \A name \in SchoolNames : i \notin Idx(name)}

\* the two volumes of a row, for either analysis
RowRefVolume(row) == IF prog = "chat_trend" THEN row.base_volume ELSE row.prev_volume
RowCurVolume(row) == IF prog = "chat_trend" THEN row.comparison_volume ELSE row.current_volume

\* C11: an institution with an empty queue set, or none of whose queues
\* occurs in the table, is not in the trend output; for every institution of
\* the output, the volumes of each row count exactly the records of the
\* month whose queue is in the institution's queue set.
C11_InstitutionPartitioning ==
    (prog \in {"date_range", "chat_trend"} /\ pc = "analyzed") =>
        /\ \A name \in SchoolNames :
            (QueuesOf(name) = {} \/ Idx(name) = {})
            => \A k \in 1..Len(trends) : trends[k].school # name
        /\ \A k \in 1..Len(trends) :
            \A i \in 1..Len(trends[k].changes) :
                LET row == trends[k].changes[i]
                IN  /\ RowRefVolume(row)
                           = Cardinality(InMonth(RefSet(trends[k].school), row.month))
                    /\ RowCurVolume(row)
                           = Cardinality(InMonth(CurSet(trends[k].school), row.month))

\* C11 witness: school A is analysed on a table that also holds a record of a
\* queue of no institution, school B has no record and school E no queue
C11_Witness ==
    /\ prog = "date_range" /\ pc = "analyzed"
    /\ Len(trends) = 1 /\ trends[1].school = "A"
    /\ Idx("B") = {} /\ QueuesOf("E") = {}
    /\ Unmatched # {}
    /\ trends[1].total_stats.prev_period.total_chats
         + trends[1].total_stats.current_period.total_chats < Len(df)

\* C12: when the table holds records whose queue belongs to no institution,
\* the output of analyze_trends has a bucket that is not an institution of
\* the directory and accounts for them.
C12_UnmatchedBucket ==
    (prog = "date_range" /\ pc = "analyzed" /\ Unmatched # {}) =>
        \E k \in 1..Len(trends) : trends[k].school \notin SchoolNames

\* C13: a record without a started timestamp is dropped when the table is
\* built: no row of the table has started = NaT.
C13_UntimedDropped ==
    (prog = "date_range" /\ pc \in {"ready", "analyzed", "returned"}) =>
        \A i \in 1..Len(df) : df[i].started # NaT

\* C14: the no-data outcome of analyze_date_range_trends (None) tells the
\* caller that there was nothing to compare: it is returned exactly when the
\* trend output is empty, which includes every run that obtained no record,
\* and by no other failure of the run.
C14_NoDataDistinct ==
    (prog = "date_range" /\ pc = "returned") =>
        /\ all_chats = <<>> => result = ReturnNone
        /\ result = ReturnNone <=> trends = <<>>

\* the position of a school in the directory
DirIdx(name) == CHOOSE j \in 1..Len(SchoolDict) : SchoolDict[j].short_name = name

\* the entry of the school in trends
EntryOf(name) == trends[CHOOSE k \in 1..Len(trends) : trends[k].school = name]

\* C16: the chart rows and the table rows of a report list every institution
\* of the trend output once, by ascending volume_change; institutions with
\* equal volume_change are in directory order.
C16_ReportOrdering ==
    (prog = "date_range" /\ pc = "returned" /\ result.kind = "dict") =>
        LET cd == report.chart_data
            names == Column(cd, "School")
        IN  /\ Len(cd) = Len(trends)
            /\ {names[i] : i \in 1..Len(cd)} = {trends[k].school : k \in 1..Len(trends)}
            /\ \A i \in 1..Len(cd) : cd[i].Change = SortKey(EntryOf(names[i]))
            /\ \A i, j \in 1..Len(cd) :
                i < j => /\ ~FloatLT(cd[j].Change, cd[i].Change)
                         /\ cd[i].Change = cd[j].Change => DirIdx(names[i]) < DirIdx(names[j])
            /\ report.sorted_schools = names
            /\ Column(report.rows, "school") = names

\* C16 witness: school B declined less than school A grew and is listed first
C16_Witness ==
    /\ prog = "date_range" /\ pc = "returned" /\ result.kind = "dict"
    /\ Len(report.chart_data) = 2
    /\ report.chart_data[1].School = "B" /\ report.chart_data[2].School = "A"
    /\ FloatLT(report.chart_data[1].Change, report.chart_data[2].Change)

\* C19: the mapping generate_report returns is the mapping analyze_trends
\* produced from the table, entry by entry and row by row.
C19_ReportKeepsTrends ==
    (prog = "date_range" /\ pc = "returned" /\ result.kind = "dict") =>
        /\ result.value = DateRangeTrends(df, win)
        /\ trends = DateRangeTrends(df, win)

\* C19 witness: a report that lists B before A returns A before B, with A's
\* monthly row
C19_Witness ==
    /\ prog = "date_range" /\ pc = "returned" /\ result.kind = "dict"
    /\ Len(result.value) = 2
    /\ result.value[1].school = "A" /\ Len(result.value[1].changes) = 1
    /\ report.rows[1].school = "B"

\* C20: the reference window is the current window with the year minus one
\* and the same month and day of month.
C20_ReferenceWindow ==
    prog = "date_range" =>
        /\ win.prev_start = Date(win.current_start.y - 1, win.current_start.m,
                                 win.current_start.d)
        /\ win.prev_end = Date(win.current_end.y - 1, win.current_end.m,
                               win.current_end.d)

\* the table the constructor of the running class builds from all_chats
BuiltFrame ==
    IF prog = "chat_trend" THEN MakeStartedFrame(all_chats) ELSE MakeFrame(all_chats)

\* the record subset of a school and a period, selected from df as it is now
SubsetNow(name, lo, hi) == InPeriod(SchoolChats(df, QueuesOf(name)), lo, hi)

\* C17: analyze_trends called twice on the same analyzer returns the same
\* result both times; the bucket maps _process_monthly_stats gave in the
\* second call are those it gave in the first, and those it gives on the
\* same record subsets selected from the table after the calls; and after
\* every call the analyzer's table self.df is the table the constructor
\* built.
C17_Idempotent ==
    (prog \in {"date_range", "chat_trend"} /\ analyses.seen # <<>>) =>
        /\ df = BuiltFrame
        /\ trends = analyses.seen[Len(analyses.seen)].trends
        /\ \A i \in 1..Len(analyses.seen) :
            /\ analyses.seen[i].trends = analyses.seen[1].trends
            /\ analyses.seen[i].monthly = analyses.seen[1].monthly
            /\ \A k \in 1..Len(analyses.seen[i].monthly) :
                LET m == analyses.seen[i].monthly[k]
                IN  /\ m.prev_monthly
                         = ProcessMonthlyStats(SubsetNow(m.school, win.prev_start,
                                                         win.prev_end))
                    /\ m.current_monthly
                         = ProcessMonthlyStats(SubsetNow(m.school, win.current_start,
                                                         win.current_end))

\* C17 witness: analyze_trends has returned twice on a table with records of
\* both schools in both periods; each call aggregated non-empty subsets and
\* returned an entry for each school
C17_Witness ==
    /\ prog = "date_range" /\ pc = "analyzed"
    /\ Len(analyses.seen) = 2
    /\ Len(analyses.seen[1].trends) = 2 /\ Len(analyses.seen[2].trends) = 2
    /\ Len(analyses.seen[2].monthly) = 2
    /\ \A k \in 1..2 : /\ analyses.seen[2].monthly[k].prev_monthly # <<>>
                       /\ analyses.seen[2].monthly[k].current_monthly # <<>>
    /\ Idx("A") # {} /\ Idx("B") # {}

\* C15: when the school name matches no directory entry, the constructor
\* raises before any day is fetched, and the kind of the error differs from
\* the kind of the error raised when no chat was found in the range; the
\* same distinction reaches the caller of analyze_school.
C15_UnknownSchoolKind ==
    (prog = "school" /\ FindSchool(school_name) = 0) =>
        /\ calls = <<>>
        /\ pc = "raised" => result.exc # NoChatsFound.exc
        /\ pc = "returned" => result # ReturnNone

\* the days an invocation has called list_day for are the first days of its own range
OwnDays(cs, range) ==
    /\ Len(cs) <= Len(range)
    /\ Column(cs, "day") = SubSeq(range, 1, Len(cs))

\* C18: with a DateRangeTrendAnalysis and a ServiceAnalytics invocation
\* interleaved in any way, each has called list_day only for days of its own
\* range, holds in its list exactly what its own calls returned, and builds
\* its table and its result from that list alone, as it does when run alone.
C18_NoInteraction ==
    other.pc # "none" =>
        LET mine   == MakeFrame(Returned(calls))
            theirs == MakeFrame(Returned(other.calls))
        IN  /\ OwnDays(calls, RangeDays)
            /\ OwnDays(other.calls, DaysBetween(other.start_dt, other.end_dt))
            /\ all_chats = Returned(calls)
            /\ other.all_chats = Returned(other.calls)
            /\ pc \in {"ready", "analyzed", "returned"} => df = mine
            /\ pc \in {"analyzed", "returned"} => trends = DateRangeTrends(mine, win)
            /\ (pc = "returned" /\ result.kind = "dict")
                   => result.value = DateRangeTrends(mine, win)
            /\ other.pc \in {"ready", "analyzed"} => other.df = theirs
            /\ other.pc = "analyzed" => other.total_chats = Len(theirs)
            /\ other.pc = "error" => theirs = <<>>

\* C18 witness: the second invocation has fetched two records and finished
\* while the first one, with records of its first day, is between its two
\* fetch loops
C18_Witness ==
    /\ prog = "date_range" /\ pc = "fetch" /\ period = "current"
    /\ Len(calls) = 1 /\ Len(all_chats) = 2
    /\ other.pc = "analyzed" /\ other.total_chats = 2

\* C24: every institution of the analyze_trends output has a non-empty
\* changes list and at least one record in each window, and its
\* volume_change is (current_total - prev_total) / prev_total * 100 of its
\* two totals: the values for a zero reference total are never used.
C24_NoFallback ==
    (prog = "date_range" /\ pc = "analyzed") =>
        \A k \in 1..Len(trends) :
            LET e == trends[k]
            IN  /\ e.changes # <<>>
                /\ RefIdx(e.school) # {} /\ CurIdx(e.school) # {}
                /\ e.total_stats.prev_period.total_chats > 0
                /\ e.total_stats.current_period.total_chats > 0
                /\ IsPctOfInts(e.overall_changes.volume_change,
                               e.total_stats.current_period.total_chats,
                               e.total_stats.prev_period.total_chats)

\* C24 witness: an institution with two reference records and one current
\* record, whose volume_change -50 is neither 100 nor 0
C24_Witness ==
    /\ prog = "date_range" /\ pc = "analyzed"
    /\ \E k \in 1..Len(trends) :
        /\ trends[k].total_stats.prev_period.total_chats = 2
        /\ trends[k].total_stats.current_period.total_chats = 1
        /\ trends[k].overall_changes.volume_change = Int2F(-50)

\* a current window of at most 12 months: its end is less than a year after
\* its start
AtMostTwelveMonths ==
    DateLE(MinusOneYear(win.current_end), win.current_start)
        /\ MinusOneYear(win.current_end) # win.current_start

\* C25: with windows of at most 12 months, total_chats of a period counts
\* every record of the institution in that window; the sum of prev_volume
\* over the rows is <= the reference total, with equality exactly when every
\* reference month has a current bucket, and the sum of current_volume is
\* <= the current total, with equality exactly when every current month has
\* a reference bucket.
C25_TotalsCoverRows ==
    (prog = "date_range" /\ pc = "analyzed" /\ AtMostTwelveMonths) =>
        \A k \in 1..Len(trends) :
            LET e == trends[k]
                ref == RefIdx(e.school)
                cur == CurIdx(e.school)
                prev_sum == SumSeq(Column(e.changes, "prev_volume"))
                cur_sum  == SumSeq(Column(e.changes, "current_volume"))
            IN  /\ e.total_stats.prev_period.total_chats = Cardinality(ref)
                /\ e.total_stats.current_period.total_chats = Cardinality(cur)
                /\ prev_sum <= Cardinality(ref)
                /\ cur_sum <= Cardinality(cur)
                /\ prev_sum = Cardinality(ref) <=> MonthsOf(ref) \subseteq MonthsOf(cur)
                /\ cur_sum = Cardinality(cur) <=> MonthsOf(cur) \subseteq MonthsOf(ref)

\* the rows of df of the school that started in month m of the year
YearMonthIdx(name, year, m) ==
    {i \in Idx(name) : df[i].started.y = year /\ df[i].started.m = m}

\* the months in which the school has a record in both years
BothYears(name) ==
    {m \in 1..12 : /\ YearMonthIdx(name, win.base_year, m) # {}
                   /\ YearMonthIdx(name, win.comparison_year, m) # {}}

\* C27: ChatTrendAnalysis.analyze_trends gives a school with queues exactly
\* one row for each month in which it has a record in the base year and one
\* in the comparison year, in ascending month order, with that month's
\* counts; the school is in the output iff there is such a month, and
\* total_base_year / total_comparison_year are the sums of the rows' volumes.
\* A school without queues is not in the output.
C27_YearRowSet ==
    (prog = "chat_trend" /\ pc = "analyzed") =>
        /\ \A name \in SchoolNames :
            (\E k \in 1..Len(trends) : trends[k].school = name)
                <=> (QueuesOf(name) # {} /\ BothYears(name) # {})
        /\ \A k \in 1..Len(trends) :
            LET e == trends[k]
            IN  /\ Len(e.changes) = Cardinality(BothYears(e.school))
                /\ \A i \in 1..Len(e.changes) :
                    /\ e.changes[i].month \in BothYears(e.school)
                    /\ i > 1 => e.changes[i - 1].month < e.changes[i].month
                    /\ e.changes[i].base_volume
                         = Cardinality(YearMonthIdx(e.school, win.base_year, e.changes[i].month))
                    /\ e.changes[i].comparison_volume
                         = Cardinality(YearMonthIdx(e.school, win.comparison_year, e.changes[i].month))
                /\ e.total_base_year = SumSeq(Column(e.changes, "base_volume"))
                /\ e.total_comparison_year = SumSeq(Column(e.changes, "comparison_volume"))

\* C27 witness: a school with records in November and December of the base
\* year and in November only of the comparison year: one row, for November
C27_Witness ==
    /\ prog = "chat_trend" /\ pc = "analyzed"
    /\ \E k \in 1..Len(trends) :
        /\ YearMonthIdx(trends[k].school, win.base_year, 12) # {}
        /\ YearMonthIdx(trends[k].school, win.comparison_year, 12) = {}
        /\ Len(trends[k].changes) = 1
        /\ trends[k].changes[1].month = 11

\* the returned records whose queue is one of the named school's queues
RECURSIVE Matching(_, _)
Matching(chats, queues) ==
    IF chats = <<>> THEN <<>>
    ELSE (IF Head(chats).queue \in queues THEN <<Head(chats)>> ELSE <<>>)
         \o Matching(Tail(chats), queues)

\* C29: SchoolChatAnalytics._fetch_data attempts every day of
\* [start_date, end_date] exactly once in ascending order whatever days
\* raise; the list it accumulates, and the table made of it, hold exactly the
\* records of the successful days whose queue is one of the school's; the
\* ValueError "No chats found" is raised only after the last day was
\* attempted and exactly when that list is empty, whether the days raised or
\* returned nothing that matches.
C29_SchoolFetch ==
    (prog = "school" /\ FindSchool(school_name) # 0) =>
        LET days == Column(calls, "day")
            all  == DaysBetween(win.current_start, win.current_end)
            mine == Matching(Returned(calls), SchoolDict[FindSchool(school_name)].queues)
        IN  /\ Len(days) <= Len(all)
            /\ days = SubSeq(all, 1, Len(days))
            /\ all_chats = mine
            /\ pc \in {"find", "fetch"} => result = NoResult
            /\ pc \in {"raised", "ready"} =>
                /\ days = all
                /\ (pc = "raised") <=> (mine = <<>>)
                /\ pc = "raised" => result = NoChatsFound
                /\ pc = "ready" => (result = NoResult /\ df = MakeFrame(mine))

\* C29 witness: the first day returned a record of a queue that is not the
\* school's, the second day returned records of the school: the table holds
\* the second day's records only
C29_Witness ==
    /\ prog = "school" /\ pc = "ready"
    /\ Len(calls) = 2
    /\ ~calls[1].raised /\ calls[1].chats # <<>>
    /\ ~calls[2].raised /\ calls[2].chats # <<>>
    /\ Len(df) = Len(calls[2].chats)
    /\ \A i \in 1..Len(df) : df[i].id = calls[2].chats[i].id

\* the (year, month) buckets of the rows I of df
KeysOf(I) == {<<df[i].started.y, df[i].started.m>> : i \in I}

\* the rows of I in the bucket key
InKey(I, key) == {i \in I : df[i].started.y = key[1] /\ df[i].started.m = key[2]}

\* the reference buckets whose month number has a current bucket
MatchedKeys(name) ==
    {k \in KeysOf(RefIdx(name)) : \E c \in KeysOf(CurIdx(name)) : c[2] = k[2]}

\* the n-th of the keys S in (year, month) order
KeyAt(S, n) ==
    CHOOSE k \in S : Cardinality({z \in S : z[1] < k[1] \/ (z[1] = k[1] /\ z[2] <= k[2])}) = n

\* the current bucket of the earliest year with month number m
EarliestKey(name, m) ==
    CHOOSE c \in KeysOf(CurIdx(name)) :
        /\ c[2] = m
        /\ \A z \in KeysOf(CurIdx(name)) : z[2] = m => c[1] <= z[1]

\* C21: on a window longer than 12 months analyze_trends gives one TrendRow
\* per reference (year, month) bucket whose month number has a current
\* bucket, in bucket order, so a month number can be carried by two rows;
\* every row holds the volume of the current bucket of the earliest year
\* with that month number, whatever later-year buckets there are.
C21_EarliestCurrentBucket ==
    (prog = "date_range" /\ pc = "analyzed") =>
        \A k \in 1..Len(trends) :
            LET e == trends[k]
                keys == MatchedKeys(e.school)
            IN  /\ Len(e.changes) = Cardinality(keys)
                /\ \A i \in 1..Len(e.changes) :
                    LET key == KeyAt(keys, i)
                    IN  /\ e.changes[i].month = key[2]
                        /\ e.changes[i].prev_volume
                             = Cardinality(InKey(RefIdx(e.school), key))
                        /\ e.changes[i].current_volume
                             = Cardinality(InKey(CurIdx(e.school), EarliestKey(e.school, key[2])))

\* C21 witness: an institution with reference buckets 2018-06 and 2019-06
\* and current buckets 2019-06 (two records) and 2020-06 (one record): two
\* rows carry month 6 and both hold the volume 2 of the 2019-06 bucket
C21_Witness ==
    /\ prog = "date_range" /\ pc = "analyzed"
    /\ \E k \in 1..Len(trends) :
        LET e == trends[k]
        IN  /\ KeysOf(RefIdx(e.school)) = {<<2018, 6>>, <<2019, 6>>}
            /\ KeysOf(CurIdx(e.school)) = {<<2019, 6>>, <<2020, 6>>}
            /\ Cardinality(InKey(CurIdx(e.school), <<2019, 6>>)) = 2
            /\ Cardinality(InKey(CurIdx(e.school), <<2020, 6>>)) = 1
            /\ Len(e.changes) = 2
            /\ e.changes[1].month = 6 /\ e.changes[2].month = 6
            /\ e.changes[1].current_volume = 2 /\ e.changes[2].current_volume = 2

\* the institutions whose processing raises: a duration or a wait that is
\* not a number among their records of the two windows
Failing ==
    {name \in SchoolNames :
        \E i \in RefIdx(name) \cup CurIdx(name) :
            df[i].duration = NotNumber \/ df[i].wait = NotNumber}

\* the table without the records of the failing institutions
Healthy == SelectSeq(df, LAMBDA r : \A name \in Failing : r.queue \notin QueuesOf(name))

\* C22: an exception raised while analyze_trends processes one institution
\* is absorbed: that institution has no entry at all, every other
\* institution has the entry it has when the failing institutions' records
\* are absent from the table, and every entry of the mapping has changes,
\* total_stats and overall_changes.
C22_FailureIsolation ==
    (prog = "date_range" /\ pc = "analyzed") =>
        /\ \A k \in 1..Len(trends) :
            /\ trends[k].school \notin Failing
            /\ DOMAIN trends[k] = {"school", "changes", "total_stats", "overall_changes"}
            /\ trends[k].changes # <<>>
            /\ DOMAIN trends[k].overall_changes
                 = {"volume_change", "duration_change", "wait_change"}
        /\ trends = DateRangeTrends(Healthy, win)

\* C22 witness: the first institution has records in both windows and fails,
\* the institution after it has its entry
C22_Witness ==
    /\ prog = "date_range" /\ pc = "analyzed"
    /\ \E name \in Failing :
        /\ RefIdx(name) # {} /\ CurIdx(name) # {}
        /\ DirIdx(name) = 1
    /\ \E k \in 1..Len(trends) : DirIdx(trends[k].school) = 2

\* C26: no calendar day is fetched twice by the two fetch_range loops, no
\* record is twice in the table, and no record is in both the reference and
\* the current window, whatever the length of the current window.
C26_NoDuplicateFetch ==
    (prog = "date_range" /\ pc \notin {"fetch"}) =>
        /\ \A i, j \in 1..Len(calls) : calls[i].day = calls[j].day => i = j
        /\ \A i, j \in 1..Len(df) : df[i].id = df[j].id => i = j
        /\ \A name \in SchoolNames : RefIdx(name) \cap CurIdx(name) = {}

\* C28: in analyze_school, once the analyzer is constructed, the five tasks
\* are started once each in the order of the list, whatever earlier tasks
\* raised; no exception of a task reaches the caller, who gets the analyzer
\* after the fifth task; with generate_report false the first task calls
\* nothing. When the constructor raises, no task is started and None is
\* returned.
C28_TaskSequencing ==
    prog = "school" =>
        /\ Len(tasks) <= Len(TaskNames)
        /\ \A n \in 1..Len(tasks) :
            /\ tasks[n].name = TaskNames[n]
            /\ tasks[n].called <=> (n # 1 \/ gen_report)
            /\ tasks[n].raised => tasks[n].called
        /\ tasks # <<>> => pc \in {"ready", "returned"}
        /\ pc = "returned" =>
            /\ result \in {ReturnAnalyzer, ReturnNone}
            /\ result = ReturnAnalyzer <=> Len(tasks) = Len(TaskNames)
            /\ result = ReturnNone <=> tasks = <<>>
        /\ pc = "raised" => tasks = <<>>

\* C28 witness: generate_report is false, the second and the fourth task
\* raised, the five tasks were started and the analyzer is returned
C28_Witness ==
    /\ prog = "school" /\ pc = "returned" /\ result = ReturnAnalyzer
    /\ ~gen_report
    /\ Len(tasks) = 5
    /\ ~tasks[1].called
    /\ tasks[2].raised /\ ~tasks[3].raised /\ tasks[4].raised

\* the chats of the table that have an operator
Operated == {i \in 1..Len(df) : df[i].operator # NoOperator}

\* C30 (as the code has it): after the loop of generate_chord_diagram every
\* chat of the table is in flow_data or counted as skipped,
\* len(flow_data) + skipped_chats = number of chats, and skipped_chats is the
\* sum of the four error_details counters; with flow_data empty the function
\* returns None and writes no file; with flow_data non-empty it writes the
\* file and returns the flow list, or an exception is caught and it returns
\* None: the flow list is returned exactly when the file was written.
C30_ChordAccounting ==
    (prog = "school" /\ chord.ran) =>
        /\ Len(chord.flow_data) + chord.skipped_chats = Len(df)
        /\ chord.skipped_chats
             = chord.error_details.no_operator
               + chord.error_details.unknown_operator_school
               + chord.error_details.unknown_queue_school
               + chord.error_details.other_errors
        /\ chord.error_details.no_operator = Len(df) - Cardinality(Operated)
        /\ chord.returned.kind \in {"none", "list"}
        /\ chord.flow_data = <<>> => (chord.returned.kind = "none" /\ ~chord.file)
        /\ chord.returned.kind = "list" <=> chord.file
        /\ chord.returned.kind = "list" => chord.flow_data # <<>>

\* C30 witness: a table with a chat that gives a flow and a chat that is
\* skipped; the file is written and the flow list returned
C30_Witness ==
    /\ prog = "school" /\ chord.ran
    /\ Len(chord.flow_data) = 1 /\ chord.skipped_chats = 1
    /\ chord.file /\ chord.returned.kind = "list"
    /\ chord.returned.value = << [from |-> "A", to |-> "A", value |-> 1] >>

\* C30 as stated: the accounting, and None returned without a file exactly
\* when flow_data is empty.
C30_NoneIffEmpty ==
    (prog = "school" /\ chord.ran) =>
        /\ Len(chord.flow_data) + chord.skipped_chats = Len(df)
        /\ (chord.returned.kind = "none" /\ ~chord.file) <=> chord.flow_data = <<>>

\* the rows of the table in period 1 of the comparison
Period1Idx ==
    {i \in 1..Len(df) : /\ TsLE(Midnight(win.prev_start), df[i].started)
                        /\ TsLE(df[i].started, Midnight(win.prev_end))}

\* C23: compare_time_periods returns a comparison without raising for every
\* pair of periods, a period without records and a numeric statistic with a
\* period-1 value of 0 included, and the percent change of a statistic whose
\* period-1 value is zero or undefined is not reported as a number.
C23_CompareNeverRaises ==
    (prog = "enhanced" /\ pc = "compared") =>
        /\ result.kind = "dict"
        /\ \A i \in 1..Len(result.value) :
            LET c == result.value[i]
            IN  (c.has_pct /\ (IsZero(c.period1) \/ IsNaN(c.period1)))
                    => Undefined(c.pct_change)

====
